---- MODULE Spec2Model ----
(***************************************************************************)
(* mp-ingester: the MedlinePlus ingestion pipeline.                        *)
(*                                                                         *)
(* The model covers main() of mp_ingester.py (groups mode and topics mode  *)
(* with its two passes), the concurrent body-part scrape, the decoders of  *)
(* parsers.py and the ingesters of ingesters.py.  The store behind the DAL *)
(* (package fform, an external collaborator) is modelled from the upsert   *)
(* contract: tables are sequences of rows, the surrogate id of a row is    *)
(* its position, `iodi` is insert-or-do-nothing, `iodu` is                 *)
(* insert-or-update and get_by_attr returns the first matching row or      *)
(* None.                                                                   *)
(*                                                                         *)
(* Three specifications share the state:                                   *)
(*   Spec           main() as written: scrape, parse the XML file, ingest. *)
(*   SpecIngesters  the ingesters driven with document streams directly    *)
(*                  (the dictionaries the ingesters read), in the order    *)
(*                  main() drives them.                                    *)
(*   SpecParsers    parse() of the two parsers, event by event: the        *)
(*                  extractor generate_xml_elements over the events of     *)
(*                  iterparse and the decoding of each yielded element.    *)
(***************************************************************************)
EXTENDS Integers, Sequences, FiniteSets, TLC

VARIABLES
    mode,                       \* arguments.mode: "groups" | "topics"
    pc,                         \* position of main()
    health_topic_group_classes, \* scraped taxonomy (group classes)
    tasks,                      \* state of each body-part scrape task
    health_topic_body_parts,    \* gathered body-part taxonomy
    file_xml,                   \* elements of the XML file, in document order
    documents,                  \* SpecIngesters: the stream of documents
    pos,                        \* index of the next record of the current loop
    db,                         \* the persisted store behind the DAL
    calls,                      \* DAL calls of the current run, in order
    exc,                        \* the exception that ended the run, or NoExc
    run,                        \* number of the current run of main()
    db_run1,                    \* the store as the previous run left it
    start_tag,                  \* generate_xml_elements: its local start_tag
    populated,                  \* paths of the matched elements built and
                                \* not cleared
    yielded                     \* elements generate_xml_elements has yielded

vars == <<mode, pc, health_topic_group_classes, tasks, health_topic_body_parts,
          file_xml, documents, pos, db, calls, exc, run, db_run1, start_tag,
          populated, yielded>>

-----------------------------------------------------------------------------
(* Bounds *)

\* Longest XML file (elements) and longest document stream.
MaxElements == 2
MaxDocuments == 2
\* The runs of main() against the same store: a run and its repetition.
Runs == {1, 2}

-----------------------------------------------------------------------------
(* Python values *)

\* None where an id or an object is expected (ids are positive).
None == 0
\* None where a string is expected.
NoneStr == "None"
\* No exception raised.
NoExc == "NoExc"
\* The empty dictionary: `not document` holds exactly for it.
EmptyDoc == <<>>

IsEmptyDoc(document) == DOMAIN document = {}

Min(S) == CHOOSE i \in S : \A j \in S : i <= j

\* int(): the attribute strings the model uses. None raises TypeError and a
\* non-numeric string raises ValueError.
NumericStrings == {"1", "2", "3", "9", "01"}

int(s) ==
    CASE s = "1" -> 1
      [] s = "01" -> 1
      [] s = "2" -> 2
      [] s = "3" -> 3
      [] s = "9" -> 9

int_exc(s) ==
    IF s = NoneStr THEN "TypeError"
    ELSE IF s \in NumericStrings THEN NoExc
    ELSE "ValueError"

\* str() of an integer id.
str(n) ==
    CASE n = 0 -> "0"
      [] n = 1 -> "1"
      [] n = 2 -> "2"
      [] n = 3 -> "3"
      [] n = 9 -> "9"

-----------------------------------------------------------------------------
(* The store and the DAL *)

EmptyDb ==
    [HealthTopicGroupClass |-> <<>>,
     HealthTopicGroup |-> <<>>,
     BodyPart |-> <<>>,
     HealthTopic |-> <<>>,
     PrimaryInstitute |-> <<>>,
     AlsoCalled |-> <<>>,
     SeeReference |-> <<>>,
     Descriptor |-> <<>>,
     HealthTopicAlsoCalled |-> <<>>,
     HealthTopicHealthTopicGroup |-> <<>>,
     HealthTopicDescriptor |-> <<>>,
     HealthTopicRelatedHealthTopic |-> <<>>,
     HealthTopicSeeReference |-> <<>>,
     HealthTopicBodyPart |-> <<>>]

\* The execution context threaded through an ingest call: the store, the
\* call log, the raised exception and the value returned by the last call.
Ctx(d, c) == [db |-> d, calls |-> c, exc |-> NoExc, ret |-> None]

Raise(st, e) == [st EXCEPT !.exc = e, !.ret = None]

Log(st, op, args) == [st EXCEPT !.calls = Append(@, [op |-> op, args |-> args])]

\* Rows of `tbl` that agree with `row` on every field of `keys`.
Hits(tbl, row, keys) ==
    {i \in DOMAIN tbl : \A k \in keys : tbl[i][k] = row[k]}

\* Insert-or-do-nothing keyed by `keys`; returns the id of the row.
iodi(st, op, table, row, keys) ==
    LET tbl == st.db[table]
        hit == Hits(tbl, row, keys)
        s1 == Log(st, op, row)
    IN  IF hit = {}
        THEN [s1 EXCEPT !.db[table] = Append(tbl, row), !.ret = Len(tbl) + 1]
        ELSE [s1 EXCEPT !.ret = Min(hit)]

\* Insert-or-update keyed by `keys`; returns the id of the row.
iodu(st, op, table, row, keys) ==
    LET tbl == st.db[table]
        hit == Hits(tbl, row, keys)
        s1 == Log(st, op, row)
    IN  IF hit = {}
        THEN [s1 EXCEPT !.db[table] = Append(tbl, row), !.ret = Len(tbl) + 1]
        ELSE [s1 EXCEPT !.db[table] = [tbl EXCEPT ![Min(hit)] = row],
                        !.ret = Min(hit)]

\* The first row of orm_class whose attr_name equals attr_value, or None.
\* The lookup performs no write.
get_by_attr(st, orm_class, attr_name, attr_value) ==
    LET tbl == st.db[orm_class]
        hit == {i \in DOMAIN tbl : tbl[i][attr_name] = attr_value}
        s1 == Log(st, "get_by_attr",
                  [orm_class |-> orm_class, attr_name |-> attr_name,
                   attr_value |-> attr_value])
    IN  [s1 EXCEPT !.ret = IF hit = {} THEN None ELSE Min(hit)]

-----------------------------------------------------------------------------
(* Ingesters (ingesters.py) *)

\* IngesterMedlineGroupClasses.ingest without the guard on the name.
IngesterMedlineGroupClasses_ingest_unguarded(st, name) ==
    [iodi(st, "iodi_health_topic_group_class", "HealthTopicGroupClass",
          [name |-> name], {"name"}) EXCEPT !.ret = None]

\* IngesterMedlineGroupClasses.ingest
IngesterMedlineGroupClasses_ingest(st, name) ==
    IF name = NoneStr \/ name = ""
    THEN [st EXCEPT !.ret = None]
    ELSE [iodi(st, "iodi_health_topic_group_class", "HealthTopicGroupClass",
               [name |-> name], {"name"}) EXCEPT !.ret = None]

\* IngesterMedlineBodyParts.ingest creating the group it does not find.
IngesterMedlineBodyParts_ingest_creating(st, name, health_topic_group_url) ==
    IF name = NoneStr \/ name = ""
    THEN [st EXCEPT !.ret = None]
    ELSE LET s1 == get_by_attr(st, "HealthTopicGroup", "url",
                               health_topic_group_url)
             s2 == IF s1.ret # None THEN s1
                   ELSE iodu(s1, "iodu_health_topic_group", "HealthTopicGroup",
                             [ui |-> "9", name |-> NoneStr,
                              url |-> health_topic_group_url,
                              health_topic_group_class_id |-> None],
                             {"ui"})
         IN  [iodi(s2, "iodi_body_part", "BodyPart",
                   [name |-> name, health_topic_group_id |-> s2.ret],
                   {"name", "health_topic_group_id"})
              EXCEPT !.ret = None]

\* IngesterMedlineBodyParts.ingest
IngesterMedlineBodyParts_ingest(st, name, health_topic_group_url) ==
    IF name = NoneStr \/ name = ""
    THEN [st EXCEPT !.ret = None]
    ELSE LET s1 == get_by_attr(st, "HealthTopicGroup", "url",
                               health_topic_group_url)
         IN  IF s1.ret = None
             THEN Raise(s1, "AttributeError")
             ELSE [iodi(s1, "iodi_body_part", "BodyPart",
                        [name |-> name, health_topic_group_id |-> s1.ret],
                        {"name", "health_topic_group_id"})
                   EXCEPT !.ret = None]

\* _get_group_class returning the last class that lists the group.
_get_group_class_last(classes, health_topic_group_name) ==
    LET hit == {i \in DOMAIN classes :
                  \E j \in DOMAIN classes[i].health_topic_groups :
                     classes[i].health_topic_groups[j].name
                        = health_topic_group_name}
    IN  IF hit = {} THEN NoneStr
        ELSE classes[CHOOSE i \in hit : \A j \in hit : j <= i].name

\* IngesterMedlineGroups._get_group_class: the name of the first class of the
\* taxonomy that lists a group of that exact name, or None.
_get_group_class(classes, health_topic_group_name) ==
    LET hit == {i \in DOMAIN classes :
                  \E j \in DOMAIN classes[i].health_topic_groups :
                     classes[i].health_topic_groups[j].name
                        = health_topic_group_name}
    IN  IF hit = {} THEN NoneStr ELSE classes[Min(hit)].name

\* IngesterMedlineGroups.ingest with the unresolved class skipped instead of
\* raised.
IngesterMedlineGroups_ingest_skipping(st, classes, document) ==
    IF IsEmptyDoc(document)
    THEN [st EXCEPT !.ret = None]
    ELSE LET class_name == _get_group_class(classes, document.name)
             s1 == get_by_attr(st, "HealthTopicGroupClass", "name", class_name)
         IN  IF class_name = NoneStr \/ class_name = "" \/ s1.ret = None
             THEN [st EXCEPT !.ret = None]
             ELSE [iodu(s1, "iodu_health_topic_group", "HealthTopicGroup",
                        [ui |-> str(document.id),
                         name |-> document.name,
                         url |-> document.url,
                         health_topic_group_class_id |-> s1.ret],
                        {"ui"})
                   EXCEPT !.ret = None]

\* IngesterMedlineGroups.ingest
IngesterMedlineGroups_ingest(st, classes, document) ==
    IF IsEmptyDoc(document)
    THEN [st EXCEPT !.ret = None]
    ELSE LET class_name == _get_group_class(classes, document.name)
         IN  IF class_name = NoneStr \/ class_name = ""
             THEN Raise(st, "ValueError")
             ELSE LET s1 == get_by_attr(st, "HealthTopicGroupClass", "name",
                                        class_name)
                  IN  IF s1.ret = None
                      THEN Raise(s1, "ValueError")
                      ELSE [iodu(s1, "iodu_health_topic_group",
                                 "HealthTopicGroup",
                                 [ui |-> str(document.id),
                                  name |-> document.name,
                                  url |-> document.url,
                                  health_topic_group_class_id |-> s1.ret],
                                 {"ui"})
                            EXCEPT !.ret = None]

\* A dictionary read that raises KeyError: the value the loops below see for
\* an element that lacks the key.
KeyMissing == "<KeyError>"

\* IngesterMedlineHealthTopics._get_topic_body_parts: the names of the body
\* parts whose entry lists a health-topic of that exact name, one per listing,
\* in taxonomy order.
RECURSIVE _count_topic(_, _)
_count_topic(health_topics, health_topic_name) ==
    IF health_topics = <<>> THEN 0
    ELSE (IF Head(health_topics).name = health_topic_name THEN 1 ELSE 0)
         + _count_topic(Tail(health_topics), health_topic_name)

RECURSIVE _repeat(_, _)
_repeat(x, n) == IF n = 0 THEN <<>> ELSE <<x>> \o _repeat(x, n - 1)

RECURSIVE _get_topic_body_parts(_, _)
_get_topic_body_parts(body_parts, health_topic_name) ==
    IF body_parts = <<>> THEN <<>>
    ELSE _repeat(Head(body_parts).name,
                 _count_topic(Head(body_parts).health_topics,
                              health_topic_name))
         \o _get_topic_body_parts(Tail(body_parts), health_topic_name)

\* IngesterMedlineHealthTopics.ingest_also_called
ingest_also_called(st, document) ==
    IF IsEmptyDoc(document) THEN [st EXCEPT !.ret = None]
    ELSE IF "name" \notin DOMAIN document THEN Raise(st, "KeyError")
    ELSE iodi(st, "iodi_also_called", "AlsoCalled",
              [name |-> document.name], {"name"})

\* IngesterMedlineHealthTopics.ingest_primary_institute
ingest_primary_institute(st, document) ==
    IF IsEmptyDoc(document) THEN [st EXCEPT !.ret = None]
    ELSE IF ~({"name", "url"} \subseteq DOMAIN document)
    THEN Raise(st, "KeyError")
    ELSE iodu(st, "iodu_primary_institute", "PrimaryInstitute",
              [name |-> document.name, url |-> document.url], {"name"})

\* IngesterMedlineHealthTopics.ingest_see_reference
ingest_see_reference(st, document) ==
    IF IsEmptyDoc(document) THEN [st EXCEPT !.ret = None]
    ELSE IF "name" \notin DOMAIN document THEN Raise(st, "KeyError")
    ELSE iodi(st, "iodi_see_reference", "SeeReference",
              [name |-> document.name], {"name"})

\* `for also_called in document["also-calleds"]`: the ids, in order.
RECURSIVE ingest_also_calleds(_, _, _)
ingest_also_calleds(st, docs, ids) ==
    IF st.exc # NoExc THEN st
    ELSE IF docs = <<>> THEN [st EXCEPT !.ret = ids]
    ELSE LET s1 == ingest_also_called(st, Head(docs))
         IN  ingest_also_calleds(s1, Tail(docs), Append(ids, s1.ret))

\* `for see_reference in document["see-references"]`: the ids, in order.
RECURSIVE ingest_see_references(_, _, _)
ingest_see_references(st, docs, ids) ==
    IF st.exc # NoExc THEN st
    ELSE IF docs = <<>> THEN [st EXCEPT !.ret = ids]
    ELSE LET s1 == ingest_see_reference(st, Head(docs))
         IN  ingest_see_references(s1, Tail(docs), Append(ids, s1.ret))

\* The retrieval loop with a missing object taken as an absent id instead
\* of raised.
RECURSIVE lookup_ids_lenient(_, _, _, _, _)
lookup_ids_lenient(st, orm_class, attr_name, values, ids) ==
    IF st.exc # NoExc THEN st
    ELSE IF values = <<>> THEN [st EXCEPT !.ret = ids]
    ELSE IF Head(values) = KeyMissing THEN Raise(st, "KeyError")
    ELSE LET s1 == get_by_attr(st, orm_class, attr_name, Head(values))
         IN  lookup_ids_lenient(s1, orm_class, attr_name, Tail(values),
                                Append(ids, s1.ret))

\* A retrieval loop of ingest: get_by_attr for each value, then the id
\* attribute of the returned object. The attribute read raises
\* AttributeError when get_by_attr returned None.
RECURSIVE lookup_ids(_, _, _, _, _)
lookup_ids(st, orm_class, attr_name, values, ids) ==
    IF st.exc # NoExc THEN st
    ELSE IF values = <<>> THEN [st EXCEPT !.ret = ids]
    ELSE IF Head(values) = KeyMissing THEN Raise(st, "KeyError")
    ELSE LET s1 == get_by_attr(st, orm_class, attr_name, Head(values))
         IN  IF s1.ret = None
             THEN Raise(s1, "AttributeError")
             ELSE lookup_ids(s1, orm_class, attr_name, Tail(values),
                             Append(ids, s1.ret))

\* An upsert loop of ingest: one join row per id, keyed by both columns.
RECURSIVE link_ids(_, _, _, _, _, _)
link_ids(st, op, table, field, health_topic_id, ids) ==
    IF st.exc # NoExc \/ ids = <<>> THEN st
    ELSE link_ids(iodi(st, op, table,
                       ("health_topic_id" :> health_topic_id)
                          @@ (field :> Head(ids)),
                       {"health_topic_id", field}),
                  op, table, field, health_topic_id, Tail(ids))

\* document[key][i][field] for each i (KeyMissing where the key is absent).
FieldOf(docs, field) ==
    [i \in DOMAIN docs |->
        IF field \in DOMAIN docs[i] THEN docs[i][field] ELSE KeyMissing]

\* mesh_heading["descriptor"]["id"] for each mesh heading.
DescriptorIdOf(mesh_headings) ==
    [i \in DOMAIN mesh_headings |->
        IF "descriptor" \in DOMAIN mesh_headings[i]
           /\ "id" \in DOMAIN mesh_headings[i]["descriptor"]
        THEN mesh_headings[i]["descriptor"]["id"]
        ELSE KeyMissing]

\* The keys ingest reads of a health-topic document for the HealthTopic
\* upsert.
TopicKeysUpsert ==
    {"id", "title", "url", "meta-desc", "full-summary", "date-created"}

\* The blocks of IngesterMedlineHealthTopics.ingest after the HealthTopic
\* upsert, each a retrieval loop followed by its upsert loop. A block runs
\* only if nothing was raised before it.

\* AlsoCalled records and their join rows.
IngestAlsoCalleds(st, document, health_topic_id) ==
    IF st.exc # NoExc THEN st
    ELSE IF "also-calleds" \notin DOMAIN document THEN Raise(st, "KeyError")
    ELSE LET s1 == ingest_also_calleds(st, document["also-calleds"], <<>>)
         IN  link_ids(s1, "iodi_health_topic_also_called",
                      "HealthTopicAlsoCalled", "also_called_id",
                      health_topic_id, s1.ret)

\* HealthTopicGroup lookups and their join rows.
IngestGroups(st, document, health_topic_id) ==
    IF st.exc # NoExc THEN st
    ELSE IF "groups" \notin DOMAIN document THEN Raise(st, "KeyError")
    ELSE LET s1 == lookup_ids(st, "HealthTopicGroup", "name",
                              FieldOf(document["groups"], "name"), <<>>)
         IN  link_ids(s1, "iodi_health_topic_health_topic_group",
                      "HealthTopicHealthTopicGroup", "health_topic_group_id",
                      health_topic_id, s1.ret)

\* Descriptor lookups and their join rows.
IngestDescriptors(st, document, health_topic_id) ==
    IF st.exc # NoExc THEN st
    ELSE IF "mesh-headings" \notin DOMAIN document THEN Raise(st, "KeyError")
    ELSE LET s1 == lookup_ids(st, "Descriptor", "ui",
                              DescriptorIdOf(document["mesh-headings"]), <<>>)
         IN  link_ids(s1, "iodi_health_topic_descriptor",
                      "HealthTopicDescriptor", "descriptor_id",
                      health_topic_id, s1.ret)

\* The related-topic block run whatever do_ingest_links is.
IngestLinksAlways(st, document, health_topic_id, do_ingest_links) ==
    IF st.exc # NoExc THEN st
    ELSE IF "related-topics" \notin DOMAIN document THEN Raise(st, "KeyError")
    ELSE LET s1 == lookup_ids(st, "HealthTopic", "ui",
                              FieldOf(document["related-topics"], "id"), <<>>)
         IN  link_ids(s1, "iodi_health_topic_related_health_topic",
                      "HealthTopicRelatedHealthTopic",
                      "related_health_topic_id", health_topic_id, s1.ret)

\* Related health-topics, only when do_ingest_links.
IngestLinks(st, document, health_topic_id, do_ingest_links) ==
    IF st.exc # NoExc \/ ~do_ingest_links THEN st
    ELSE IF "related-topics" \notin DOMAIN document THEN Raise(st, "KeyError")
    ELSE LET s1 == lookup_ids(st, "HealthTopic", "ui",
                              FieldOf(document["related-topics"], "id"), <<>>)
         IN  link_ids(s1, "iodi_health_topic_related_health_topic",
                      "HealthTopicRelatedHealthTopic",
                      "related_health_topic_id", health_topic_id, s1.ret)

\* SeeReference records and their join rows.
IngestSeeReferences(st, document, health_topic_id) ==
    IF st.exc # NoExc THEN st
    ELSE IF "see-references" \notin DOMAIN document THEN Raise(st, "KeyError")
    ELSE LET s1 == ingest_see_references(st, document["see-references"], <<>>)
         IN  link_ids(s1, "iodi_health_topic_see_reference",
                      "HealthTopicSeeReference", "see_reference_id",
                      health_topic_id, s1.ret)

\* Body parts named by the taxonomy for the topic's title.
IngestTopicBodyParts(st, body_parts, document, health_topic_id) ==
    IF st.exc # NoExc THEN st
    ELSE LET s1 == lookup_ids(st, "BodyPart", "name",
                              _get_topic_body_parts(body_parts,
                                                    document["title"]),
                              <<>>)
         IN  link_ids(s1, "iodi_health_topic_body_part",
                      "HealthTopicBodyPart", "body_part_id",
                      health_topic_id, s1.ret)

\* The HealthTopic written with a plain insert instead of the upsert.
UpsertHealthTopic_insert(st, document, primary_institute_id) ==
    IF st.exc # NoExc THEN st
    ELSE IF ~(TopicKeysUpsert \subseteq DOMAIN document)
    THEN Raise(st, "KeyError")
    ELSE LET row == [ui |-> str(document["id"]),
                     title |-> document["title"],
                     url |-> document["url"],
                     description |-> document["meta-desc"],
                     summary |-> document["full-summary"],
                     date_created |-> document["date-created"],
                     primary_institute_id |-> primary_institute_id]
         IN  [Log(st, "iodu_health_topic", row)
              EXCEPT !.db.HealthTopic = Append(@, row),
                     !.ret = Len(st.db.HealthTopic) + 1]

\* The HealthTopic upsert, with the id of the primary institute attached.
UpsertHealthTopic(st, document, primary_institute_id) ==
    IF st.exc # NoExc THEN st
    ELSE IF ~(TopicKeysUpsert \subseteq DOMAIN document)
    THEN Raise(st, "KeyError")
    ELSE iodu(st, "iodu_health_topic", "HealthTopic",
              [ui |-> str(document["id"]),
               title |-> document["title"],
               url |-> document["url"],
               description |-> document["meta-desc"],
               summary |-> document["full-summary"],
               date_created |-> document["date-created"],
               primary_institute_id |-> primary_institute_id],
              {"ui"})

\* Everything ingest does once the HealthTopic row is upserted; st.ret is
\* health_topic_id. The method ends without a return statement.
IngestAssociations(st, body_parts, document, do_ingest_links, health_topic_id) ==
    [IngestTopicBodyParts(
        IngestSeeReferences(
           IngestLinks(
              IngestDescriptors(
                 IngestGroups(
                    IngestAlsoCalleds(st, document, health_topic_id),
                    document, health_topic_id),
                 document, health_topic_id),
              document, health_topic_id, do_ingest_links),
           document, health_topic_id),
        body_parts, document, health_topic_id)
     EXCEPT !.ret = None]

UpsertAndAssociate(st, body_parts, document, do_ingest_links) ==
    IF st.exc # NoExc THEN st
    ELSE IngestAssociations(st, body_parts, document, do_ingest_links, st.ret)

\* IngesterMedlineHealthTopics.ingest
IngesterMedlineHealthTopics_ingest(st, body_parts, document, do_ingest_links) ==
    IF IsEmptyDoc(document) THEN [st EXCEPT !.ret = None]
    ELSE IF "primary-institute" \notin DOMAIN document
    THEN Raise(st, "KeyError")
    ELSE UpsertAndAssociate(
            UpsertHealthTopic(
               ingest_primary_institute(st, document["primary-institute"]),
               document,
               ingest_primary_institute(st, document["primary-institute"]).ret),
            body_parts, document, do_ingest_links)

-----------------------------------------------------------------------------
(* Decoders (parsers.py) *)

\* An XML element: its tag, its attributes (a function from the names of the
\* attributes present to their values), its text and its children in
\* document order. NoElement is the None that find() returns.
NoElement == <<>>

Element(tag, attrib, text, children) ==
    [tag |-> tag, attrib |-> attrib, text |-> text, children |-> children]

\* str.strip() on the texts the model uses.
strip(text) ==
    CASE text = " " -> ""
      [] text = " G1 " -> "G1"
      [] OTHER -> text

\* ParserXmlBase._et
_et(element) ==
    LET text == IF element # NoElement THEN element.text ELSE NoneStr
    IN  IF text = NoneStr \/ text = "" THEN NoneStr ELSE strip(text)

\* ParserXmlBase._eav
_eav(element, attribute) ==
    LET value == IF element # NoElement /\ attribute \in DOMAIN element.attrib
                 THEN element.attrib[attribute]
                 ELSE NoneStr
    IN  IF value = NoneStr \/ value = "" THEN NoneStr ELSE value

\* element.findall(tag) and element.find(tag)
findall(element, tag) ==
    SelectSeq(element.children, LAMBDA c : c.tag = tag)

find(element, tag) ==
    IF findall(element, tag) = <<>> THEN NoElement
    ELSE Head(findall(element, tag))

\* datetime.datetime.strptime(s, "%m/%d/%Y").date() on the dates the model
\* uses: None raises TypeError, another format raises ValueError.
strptime_exc(s) ==
    IF s = NoneStr THEN "TypeError"
    ELSE IF s = "01/15/2020" THEN NoExc
    ELSE "ValueError"

strptime(s) == CASE s = "01/15/2020" -> "2020-01-15"

\* The result of a decoder: the document, or the exception it raised.
Parsed(document) == [exc |-> NoExc, document |-> document]
ParseRaised(e) == [exc |-> e, document |-> EmptyDoc]

\* parse_health_topic_group without the language filter.
parse_health_topic_group_unfiltered(element) ==
    IF element = NoElement THEN Parsed(EmptyDoc)
    ELSE IF int_exc(_eav(element, "id")) # NoExc
    THEN ParseRaised(int_exc(_eav(element, "id")))
    ELSE Parsed([id |-> int(_eav(element, "id")),
                 url |-> _eav(element, "url"),
                 name |-> _et(element)])

\* parse_health_topic_group with a non-numeric id defaulted to 0 instead of
\* raised.
parse_health_topic_group_defaulting(element) ==
    IF element = NoElement THEN Parsed(EmptyDoc)
    ELSE IF _eav(element, "language") = "Spanish" THEN Parsed(EmptyDoc)
    ELSE Parsed([id |-> IF int_exc(_eav(element, "id")) # NoExc THEN 0
                        ELSE int(_eav(element, "id")),
                 url |-> _eav(element, "url"),
                 name |-> _et(element)])

\* ParserXmlMedlineGroups.parse_health_topic_group
parse_health_topic_group(element) ==
    IF element = NoElement THEN Parsed(EmptyDoc)
    ELSE IF _eav(element, "language") = "Spanish" THEN Parsed(EmptyDoc)
    ELSE IF int_exc(_eav(element, "id")) # NoExc
    THEN ParseRaised(int_exc(_eav(element, "id")))
    ELSE Parsed([id |-> int(_eav(element, "id")),
                 url |-> _eav(element, "url"),
                 name |-> _et(element)])

\* ParserXmlMedlineHealthTopic.parse_also_called, parse_see_reference
parse_also_called(element) ==
    IF element = NoElement THEN EmptyDoc ELSE [name |-> _et(element)]

parse_see_reference(element) ==
    IF element = NoElement THEN EmptyDoc ELSE [name |-> _et(element)]

\* ParserXmlMedlineHealthTopic.parse_group
parse_group(element) ==
    IF element = NoElement THEN Parsed(EmptyDoc)
    ELSE IF int_exc(_eav(element, "id")) # NoExc
    THEN ParseRaised(int_exc(_eav(element, "id")))
    ELSE Parsed([id |-> int(_eav(element, "id")),
                 url |-> _eav(element, "url"),
                 name |-> _et(element)])

\* ParserXmlMedlineHealthTopic.parse_descriptor, parse_qualifier
parse_descriptor(element) ==
    IF element = NoElement THEN EmptyDoc
    ELSE [id |-> _eav(element, "id"), name |-> _et(element)]

parse_qualifier(element) ==
    IF element = NoElement THEN EmptyDoc
    ELSE [id |-> _eav(element, "id"), name |-> _et(element)]

\* ParserXmlMedlineHealthTopic.parse_mesh_heading
parse_mesh_heading(element) ==
    IF element = NoElement THEN EmptyDoc
    ELSE [descriptor |-> parse_descriptor(find(element, "descriptor")),
          qualifiers |-> [i \in DOMAIN findall(element, "qualifier") |->
                            parse_qualifier(findall(element, "qualifier")[i])]]

\* parse_primary_institute without the guard against an absent element.
parse_primary_institute_unguarded(element) ==
    [url |-> _eav(element, "url"), name |-> _et(element)]

\* ParserXmlMedlineHealthTopic.parse_primary_institute
parse_primary_institute(element) ==
    IF element = NoElement THEN EmptyDoc
    ELSE [url |-> _eav(element, "url"), name |-> _et(element)]

\* ParserXmlMedlineHealthTopic.parse_related_topic
parse_related_topic(element) ==
    IF element = NoElement THEN EmptyDoc
    ELSE [url |-> _eav(element, "url"),
          id |-> _eav(element, "id"),
          name |-> _et(element)]

\* The parse_<x>s list decoders: one document per child of that tag.
parse_also_calleds(element) ==
    [i \in DOMAIN findall(element, "also-called") |->
        parse_also_called(findall(element, "also-called")[i])]

parse_groups(element) ==
    [i \in DOMAIN findall(element, "group") |->
        parse_group(findall(element, "group")[i])]

parse_mesh_headings(element) ==
    [i \in DOMAIN findall(element, "mesh-heading") |->
        parse_mesh_heading(findall(element, "mesh-heading")[i])]

parse_related_topics(element) ==
    [i \in DOMAIN findall(element, "related-topic") |->
        parse_related_topic(findall(element, "related-topic")[i])]

parse_see_references(element) ==
    [i \in DOMAIN findall(element, "see-reference") |->
        parse_see_reference(findall(element, "see-reference")[i])]

\* ParserXmlMedlineHealthTopic.parse_health_topic. The dictionary display is
\* evaluated in source order, so the first failing conversion is the one
\* raised.
parse_health_topic(element) ==
    IF element = NoElement THEN Parsed(EmptyDoc)
    ELSE IF _eav(element, "language") = "Spanish" THEN Parsed(EmptyDoc)
    ELSE IF int_exc(_eav(element, "id")) # NoExc
    THEN ParseRaised(int_exc(_eav(element, "id")))
    ELSE IF strptime_exc(_eav(element, "date-created")) # NoExc
    THEN ParseRaised(strptime_exc(_eav(element, "date-created")))
    ELSE LET groups == parse_groups(element)
             bad == {i \in DOMAIN groups : groups[i].exc # NoExc}
         IN  IF bad # {} THEN ParseRaised(groups[Min(bad)].exc)
             ELSE Parsed(
                ("meta-desc" :> _eav(element, "meta-desc"))
                @@ ("title" :> _eav(element, "title"))
                @@ ("url" :> _eav(element, "url"))
                @@ ("id" :> int(_eav(element, "id")))
                @@ ("date-created" :> strptime(_eav(element, "date-created")))
                @@ ("also_calleds" :> parse_also_calleds(element))
                @@ ("full-summary" :> _et(find(element, "full-summary")))
                @@ ("groups" :> [i \in DOMAIN groups |-> groups[i].document])
                @@ ("mesh-headings" :> parse_mesh_headings(element))
                @@ ("primary-institute" :>
                       parse_primary_institute(find(element,
                                                    "primary-institute")))
                @@ ("related-topics" :> parse_related_topics(element))
                @@ ("see-references" :> parse_see_references(element)))

\* The tree etree.iterparse builds for a file: the elements of file_xml are
\* the children of the root, and an element is named by its path, the
\* child indices from the root down.
Root(file) == Element("root", <<>>, NoneStr, file)

RECURSIVE ElementAt(_, _)
ElementAt(element, path) ==
    IF path = <<>> THEN element
    ELSE ElementAt(element.children[Head(path)], Tail(path))

\* etree.iterparse(file_xml, events=("start", "end"), tag=element_tag): the
\* start and end events of the elements of that tag, in document order.
RECURSIVE EventsOf(_, _, _)
RECURSIVE ChildEvents(_, _, _, _)
EventsOf(element, path, element_tag) ==
    IF element.tag = element_tag
    THEN <<[event |-> "start", path |-> path]>>
         \o ChildEvents(element, path, element_tag, 1)
         \o <<[event |-> "end", path |-> path]>>
    ELSE ChildEvents(element, path, element_tag, 1)

ChildEvents(element, path, element_tag, i) ==
    IF i > Len(element.children) THEN <<>>
    ELSE EventsOf(element.children[i], Append(path, i), element_tag)
         \o ChildEvents(element, path, element_tag, i + 1)

iterparse(file, element_tag) == EventsOf(Root(file), <<>>, element_tag)

\* The loop of generate_xml_elements over the events: start_tag is set by a
\* start event met while it is None; the element of an end event is yielded
\* when its tag equals start_tag, and start_tag is reset.
RECURSIVE _generate(_, _, _, _)
_generate(events, root, tag, elements) ==
    IF events = <<>> THEN elements
    ELSE LET element == ElementAt(root, Head(events).path)
         IN  IF Head(events).event = "start"
             THEN _generate(Tail(events), root,
                            IF tag = NoneStr THEN element.tag ELSE tag,
                            elements)
             ELSE IF element.tag = tag
             THEN _generate(Tail(events), root, NoneStr,
                            Append(elements, element))
             ELSE _generate(Tail(events), root, tag, elements)

\* ParserXmlBase.generate_xml_elements: the elements it yields, in order.
generate_xml_elements(file, element_tag) ==
    _generate(iterparse(file, element_tag), Root(file), NoneStr, <<>>)

-----------------------------------------------------------------------------
(* Inputs: the scraped pages and the XML files *)

UrlOf(group_name) ==
    CASE group_name = "G1" -> "/g1"
      [] group_name = "G2" -> "/g2"
      [] OTHER -> "/g3"

GroupEntry(name) == [name |-> name, url |-> UrlOf(name)]

ClassEntry(name, groups) == [name |-> name, health_topic_groups |-> groups]

\* What ScraperHealthTopicGroupClasses.scrape may return: group G1 listed by
\* one class, by two classes, classes in either order, a class without
\* groups, no class at all, and a class whose title is empty. No taxonomy
\* lists a group "g1".
Taxonomies ==
    {<<ClassEntry("CA", <<GroupEntry("G1")>>)>>,
     <<ClassEntry("CA", <<GroupEntry("G1")>>),
       ClassEntry("CB", <<GroupEntry("G1"), GroupEntry("G2")>>)>>,
     <<ClassEntry("CB", <<GroupEntry("G2")>>),
       ClassEntry("CA", <<GroupEntry("G1"), GroupEntry("G2")>>)>>,
     <<ClassEntry("CA", <<>>),
       ClassEntry("CB", <<GroupEntry("G2"), GroupEntry("G1")>>)>>,
     <<>>,
     <<ClassEntry("", <<GroupEntry("G1")>>)>>}

TopicEntry(name) == [name |-> name, url |-> "/t"]

BodyPartEntry(group_url, name, topics) ==
    [group_url |-> group_url, name |-> name, health_topics |-> topics]

\* What ScraperHealthTopicGroupBodyParts.scrape returns for the page of a
\* group: the body part "Heart" occurs under both groups, and the page of
\* G1 has a heading without text and without topics.
BodyPartsPage(url) ==
    IF url = "/g1"
    THEN <<BodyPartEntry("/g1", "", <<>>),
           BodyPartEntry("/g1", "Heart", <<TopicEntry("T1")>>)>>
    ELSE <<BodyPartEntry(url, "Heart", <<TopicEntry("T2")>>),
           BodyPartEntry(url, "Lung",
                         <<TopicEntry("T1"), TopicEntry("T2")>>)>>

\* <group> elements of a group file.
GroupElement(language, id, text) ==
    Element("group",
            [language |-> language, id |-> id, url |-> UrlOf(text)],
            text, <<>>)

GroupElements ==
    {GroupElement(l, i, t) :
        l \in {"English", "Spanish"}, i \in {"1", "2"},
        t \in {"G1", "G2", "g1"}}
    \cup {GroupElement("English", "abc", "G1"),
          Element("group", [language |-> "English", url |-> "/g1"],
                  "G1", <<>>)}

\* <health-topic> elements of a topic file.
TitleOf(id) == IF id = "1" THEN "T1" ELSE "T2"

TopicElement(language, id, date, children) ==
    Element("health-topic",
            ("language" :> language) @@ ("id" :> id)
            @@ ("title" :> TitleOf(id)) @@ ("url" :> "/t")
            @@ ("meta-desc" :> "desc") @@ ("date-created" :> date),
            NoneStr, children)

TopicChildren ==
    <<Element("also-called", <<>>, "A1", <<>>),
      Element("full-summary", <<>>, "summary", <<>>),
      Element("group", [id |-> "1", url |-> "/g1"], "G1", <<>>),
      Element("mesh-heading", <<>>, NoneStr,
              <<Element("descriptor", [id |-> "D1"], "Desc", <<>>)>>),
      Element("primary-institute", [url |-> "/nih"], "NIH", <<>>),
      Element("related-topic", [id |-> "2", url |-> "/t"], "T2", <<>>),
      Element("see-reference", <<>>, "S1", <<>>)>>

TopicElements ==
    {TopicElement(l, i, "01/15/2020", c) :
        l \in {"English", "Spanish"}, i \in {"1", "2"},
        c \in {<<>>, TopicChildren}}
    \cup {TopicElement("English", "abc", "01/15/2020", <<>>),
          TopicElement("English", "1", "2020-01-15", <<>>)}

RECURSIVE SeqsUpTo(_, _)
SeqsUpTo(S, n) ==
    IF n = 0 THEN {<<>>}
    ELSE LET shorter == SeqsUpTo(S, n - 1)
         IN  shorter \cup {Append(q, x) : q \in shorter, x \in S}

GroupFiles == SeqsUpTo(GroupElements, MaxElements)
TopicFiles == SeqsUpTo(TopicElements, MaxElements)

\* The store before a run: empty but for the MeSH descriptors, or as a
\* groups-mode run leaves it.
DescriptorsDb == [EmptyDb EXCEPT !.Descriptor = <<[ui |-> "D1"]>>]

GroupsDb ==
    [DescriptorsDb EXCEPT
        !.HealthTopicGroupClass = <<[name |-> "CA"], [name |-> "CB"]>>,
        !.HealthTopicGroup =
            <<[ui |-> "1", name |-> "G1", url |-> "/g1",
               health_topic_group_class_id |-> 1],
              [ui |-> "2", name |-> "G2", url |-> "/g2",
               health_topic_group_class_id |-> 2]>>]

InitialStores == {DescriptorsDb, GroupsDb}

-----------------------------------------------------------------------------
(* main() of mp_ingester.py *)

RunEnded == pc = "done" \/ exc # NoExc

\* An exception leaves main(): nothing catches it, the process ends.
Fail(e) ==
    /\ exc' = e
    /\ UNCHANGED <<mode, pc, health_topic_group_classes, tasks,
                   health_topic_body_parts, file_xml, documents, pos, db,
                   calls, run, db_run1,
                   start_tag, populated, yielded>>

\* The URLs the body-part scrape tasks are created for: one per group
\* listing, class by class.
RECURSIVE GroupUrls(_)
GroupUrls(classes) ==
    IF classes = <<>> THEN <<>>
    ELSE [i \in DOMAIN Head(classes).health_topic_groups |->
             Head(classes).health_topic_groups[i].url]
         \o GroupUrls(Tail(classes))

\* _scrape_health_topic_group_classes returns the taxonomy. A rerun against
\* the same input sees the taxonomy of the previous run.
ScrapeGroupClasses ==
    /\ pc = "scrape_classes" /\ exc = NoExc
    /\ \E taxonomy \in Taxonomies :
          /\ run > 1 => taxonomy = health_topic_group_classes
          /\ health_topic_group_classes' = taxonomy
          /\ tasks' = IF mode = "topics"
                      THEN [i \in DOMAIN GroupUrls(taxonomy) |-> "pending"]
                      ELSE <<>>
    /\ pc' = IF mode = "groups" THEN "ingest_classes" ELSE "scrape_body_parts"
    /\ pos' = 1
    /\ UNCHANGED <<mode, health_topic_body_parts, file_xml, documents, db,
                   calls, exc, run, db_run1,
                   start_tag, populated, yielded>>

\* fetch_page raises for the health-topics page.
ScrapeGroupClassesFails ==
    /\ pc = "scrape_classes" /\ exc = NoExc
    /\ Fail("MedlinePlusHttpRequestGetError")

\* `for health_topic_group_class in health_topic_group_classes`
IngestGroupClass ==
    /\ pc = "ingest_classes" /\ exc = NoExc
    /\ pos <= Len(health_topic_group_classes)
    /\ LET st == IngesterMedlineGroupClasses_ingest(
                    Ctx(db, calls), health_topic_group_classes[pos].name)
       IN  /\ db' = st.db
           /\ calls' = st.calls
    /\ pos' = pos + 1
    /\ UNCHANGED <<mode, pc, health_topic_group_classes, tasks,
                   health_topic_body_parts, file_xml, documents, exc, run,
                   db_run1,
                   start_tag, populated, yielded>>

\* parser_groups.parse(filename_xml) reached before the loop over the group
\* classes has ended.
ParseGroups_early ==
    /\ pc = "ingest_classes" /\ exc = NoExc
    /\ \E f \in GroupFiles :
          /\ run > 1 => f = file_xml
          /\ file_xml' = f
    /\ pc' = "groups"
    /\ pos' = 1
    /\ UNCHANGED <<mode, health_topic_group_classes, tasks,
                   health_topic_body_parts, documents, db, calls, exc, run,
                   db_run1,
                   start_tag, populated, yielded>>

\* parser_groups.parse(filename_xml): the file is opened. A rerun reads the
\* same file.
ParseGroups ==
    /\ pc = "ingest_classes" /\ exc = NoExc
    /\ pos > Len(health_topic_group_classes)
    /\ \E f \in GroupFiles :
          /\ run > 1 => f = file_xml
          /\ file_xml' = f
    /\ pc' = "groups"
    /\ pos' = 1
    /\ UNCHANGED <<mode, health_topic_group_classes, tasks,
                   health_topic_body_parts, documents, db, calls, exc, run,
                   db_run1,
                   start_tag, populated, yielded>>

\* One round of `for group in groups: ingester_groups.ingest(document=group)`:
\* the generator decodes the next <group> element, skips it when the document
\* is empty, and the ingester ingests it.
IngestGroup ==
    /\ pc = "groups" /\ exc = NoExc
    /\ pos <= Len(generate_xml_elements(file_xml, "group"))
    /\ LET parsed == parse_health_topic_group(
                        generate_xml_elements(file_xml, "group")[pos])
           st == IF parsed.exc # NoExc THEN Raise(Ctx(db, calls), parsed.exc)
                 ELSE IF IsEmptyDoc(parsed.document) THEN Ctx(db, calls)
                 ELSE IngesterMedlineGroups_ingest(
                         Ctx(db, calls), health_topic_group_classes,
                         parsed.document)
       IN  /\ db' = st.db
           /\ calls' = st.calls
           /\ exc' = st.exc
           /\ pos' = IF st.exc = NoExc THEN pos + 1 ELSE pos
    /\ UNCHANGED <<mode, pc, health_topic_group_classes, tasks,
                   health_topic_body_parts, file_xml, documents, run, db_run1,
                   start_tag, populated, yielded>>

FinishGroups ==
    /\ pc = "groups" /\ exc = NoExc
    /\ pos > Len(generate_xml_elements(file_xml, "group"))
    /\ pc' = "done"
    /\ UNCHANGED <<mode, health_topic_group_classes, tasks,
                   health_topic_body_parts, file_xml, documents, pos, db,
                   calls, exc, run, db_run1,
                   start_tag, populated, yielded>>

\* One of the scrape tasks handed to asyncio.gather completes: fetch_page
\* returned the page, or raised. The tasks complete in any order.
FetchPageOk(i) ==
    /\ pc = "scrape_body_parts" /\ exc = NoExc
    /\ tasks[i] = "pending"
    /\ tasks' = [tasks EXCEPT ![i] = "ok"]
    /\ UNCHANGED <<mode, pc, health_topic_group_classes,
                   health_topic_body_parts, file_xml, documents, pos, db,
                   calls, exc, run, db_run1,
                   start_tag, populated, yielded>>

FetchPageFails(i) ==
    /\ pc = "scrape_body_parts" /\ exc = NoExc
    /\ tasks[i] = "pending"
    /\ tasks' = [tasks EXCEPT ![i] = "failed"]
    /\ UNCHANGED <<mode, pc, health_topic_group_classes,
                   health_topic_body_parts, file_xml, documents, pos, db,
                   calls, exc, run, db_run1,
                   start_tag, populated, yielded>>

\* The results of gather(*tasks, return_exceptions=True), in task order.
RECURSIVE ExtendResults(_, _)
ExtendResults(urls, results) ==
    IF urls = <<>> THEN <<>>
    ELSE (IF Head(results) = "ok" THEN BodyPartsPage(Head(urls)) ELSE <<>>)
         \o ExtendResults(Tail(urls), Tail(results))

\* The loop over the gathered results with the exceptions skipped.
_scrape_health_topic_body_parts_partial(urls, results) ==
    [exc |-> NoExc, body_parts |-> ExtendResults(urls, results)]

\* The loop of _scrape_health_topic_body_parts over the gathered results: the
\* first result that is an exception is raised, otherwise the lists are
\* concatenated.
_scrape_health_topic_body_parts(urls, results) ==
    IF \E i \in DOMAIN results : results[i] = "failed"
    THEN [exc |-> "MedlinePlusHttpRequestGetError", body_parts |-> <<>>]
    ELSE [exc |-> NoExc, body_parts |-> ExtendResults(urls, results)]

\* gather returns once every task has completed.
GatherBodyParts ==
    /\ pc = "scrape_body_parts" /\ exc = NoExc
    /\ \A i \in DOMAIN tasks : tasks[i] # "pending"
    /\ LET r == _scrape_health_topic_body_parts(
                   GroupUrls(health_topic_group_classes), tasks)
       IN  /\ exc' = r.exc
           /\ health_topic_body_parts' = r.body_parts
           /\ pc' = IF r.exc = NoExc THEN "ingest_body_parts" ELSE pc
    /\ pos' = 1
    /\ UNCHANGED <<mode, health_topic_group_classes, tasks, file_xml,
                   documents, db, calls, run, db_run1,
                   start_tag, populated, yielded>>

\* `for health_topic_body_part in health_topic_body_parts`
IngestBodyPart ==
    /\ pc = "ingest_body_parts" /\ exc = NoExc
    /\ pos <= Len(health_topic_body_parts)
    /\ LET st == IngesterMedlineBodyParts_ingest(
                    Ctx(db, calls), health_topic_body_parts[pos].name,
                    health_topic_body_parts[pos].group_url)
       IN  /\ db' = st.db
           /\ calls' = st.calls
           /\ exc' = st.exc
           /\ pos' = IF st.exc = NoExc THEN pos + 1 ELSE pos
    /\ UNCHANGED <<mode, pc, health_topic_group_classes, tasks,
                   health_topic_body_parts, file_xml, documents, run, db_run1,
                   start_tag, populated, yielded>>

\* parser_topics.parse(filename_xml) before pass 1.
ParseTopics ==
    /\ pc = "ingest_body_parts" /\ exc = NoExc
    /\ pos > Len(health_topic_body_parts)
    /\ \E f \in TopicFiles :
          /\ run > 1 => f = file_xml
          /\ file_xml' = f
    /\ pc' = "pass1"
    /\ pos' = 1
    /\ UNCHANGED <<mode, health_topic_group_classes, tasks,
                   health_topic_body_parts, documents, db, calls, exc, run,
                   db_run1,
                   start_tag, populated, yielded>>

\* One round of `for topic in topics: ingester_topics.ingest(document=topic,
\* do_ingest_links=...)`, in pass 1 (False) or pass 2 (True).
IngestTopic ==
    /\ pc \in {"pass1", "pass2"} /\ exc = NoExc
    /\ pos <= Len(generate_xml_elements(file_xml, "health-topic"))
    /\ LET parsed == parse_health_topic(
                        generate_xml_elements(file_xml, "health-topic")[pos])
           st == IF parsed.exc # NoExc THEN Raise(Ctx(db, calls), parsed.exc)
                 ELSE IF IsEmptyDoc(parsed.document) THEN Ctx(db, calls)
                 ELSE IngesterMedlineHealthTopics_ingest(
                         Ctx(db, calls), health_topic_body_parts,
                         parsed.document, pc = "pass2")
       IN  /\ db' = st.db
           /\ calls' = st.calls
           /\ exc' = st.exc
           /\ pos' = IF st.exc = NoExc THEN pos + 1 ELSE pos
    /\ UNCHANGED <<mode, pc, health_topic_group_classes, tasks,
                   health_topic_body_parts, file_xml, documents, run, db_run1,
                   start_tag, populated, yielded>>

\* Pass 1 is exhausted: the file is parsed again from the start.
StartPass2 ==
    /\ pc = "pass1" /\ exc = NoExc
    /\ pos > Len(generate_xml_elements(file_xml, "health-topic"))
    /\ pc' = "pass2"
    /\ pos' = 1
    /\ UNCHANGED <<mode, health_topic_group_classes, tasks,
                   health_topic_body_parts, file_xml, documents, db, calls,
                   exc, run, db_run1,
                   start_tag, populated, yielded>>

FinishTopics ==
    /\ pc = "pass2" /\ exc = NoExc
    /\ pos > Len(generate_xml_elements(file_xml, "health-topic"))
    /\ pc' = "done"
    /\ UNCHANGED <<mode, health_topic_group_classes, tasks,
                   health_topic_body_parts, file_xml, documents, pos, db,
                   calls, exc, run, db_run1,
                   start_tag, populated, yielded>>

\* The operator runs main() again, in the same mode, against the same file
\* and taxonomy and the store the previous run left. Only a run that read its
\* file is run again.
Rerun ==
    /\ RunEnded
    /\ run + 1 \in Runs
    /\ pc \in {"groups", "pass1", "pass2", "done"}
    /\ run' = run + 1
    /\ db_run1' = db
    /\ pc' = "scrape_classes"
    /\ pos' = 1
    /\ calls' = <<>>
    /\ exc' = NoExc
    /\ tasks' = <<>>
    /\ health_topic_body_parts' = <<>>
    /\ UNCHANGED <<mode, health_topic_group_classes, file_xml, documents, db,
                   start_tag, populated, yielded>>

Init ==
    /\ mode \in {"groups", "topics"}
    /\ pc = "scrape_classes"
    /\ health_topic_group_classes = <<>>
    /\ tasks = <<>>
    /\ health_topic_body_parts = <<>>
    /\ file_xml = <<>>
    /\ documents = <<>>
    /\ pos = 1
    /\ db \in InitialStores
    /\ calls = <<>>
    /\ exc = NoExc
    /\ run = 1
    /\ db_run1 = EmptyDb
    /\ start_tag = NoneStr
    /\ populated = {}
    /\ yielded = <<>>

Next ==
    \/ ScrapeGroupClasses
    \/ ScrapeGroupClassesFails
    \/ IngestGroupClass
    \/ ParseGroups
    \/ IngestGroup
    \/ FinishGroups
    \/ \E i \in DOMAIN tasks : FetchPageOk(i)
    \/ \E i \in DOMAIN tasks : FetchPageFails(i)
    \/ GatherBodyParts
    \/ IngestBodyPart
    \/ ParseTopics
    \/ IngestTopic
    \/ StartPass2
    \/ FinishTopics
    \/ Rerun

Spec == Init /\ [][Next]_vars

-----------------------------------------------------------------------------
(* The ingesters driven with document streams *)

\* Group documents as IngesterMedlineGroups.ingest reads them.
GroupDocuments ==
    {[id |-> i, url |-> UrlOf(n), name |-> n] :
        i \in 1..MaxDocuments, n \in {"G1", "G2", "g1"}}

\* Health-topic documents as IngesterMedlineHealthTopics.ingest reads them:
\* the keys are the ones ingest subscripts the document with.
TopicTitle(id) == IF id = 1 THEN "T1" ELSE "T2"

TopicDocument(id, inst, also, groups, mesh, related, see) ==
    ("id" :> id) @@ ("title" :> TopicTitle(id)) @@ ("url" :> "/t")
    @@ ("meta-desc" :> "desc") @@ ("full-summary" :> "summary")
    @@ ("date-created" :> "2020-01-15")
    @@ ("primary-institute" :> inst)
    @@ ("also-calleds" :> also)
    @@ ("groups" :> groups)
    @@ ("mesh-headings" :> mesh)
    @@ ("related-topics" :> related)
    @@ ("see-references" :> see)

Named(names) == [i \in DOMAIN names |-> [name |-> names[i]]]

GroupRefs(names) ==
    [i \in DOMAIN names |-> [id |-> 1, url |-> UrlOf(names[i]),
                             name |-> names[i]]]

RelatedRefs(ids) ==
    [i \in DOMAIN ids |-> [url |-> "/t", id |-> ids[i], name |-> "T"]]

MeshHeadings(uis) ==
    [i \in DOMAIN uis |->
        [descriptor |-> [id |-> uis[i], name |-> "Desc"],
         qualifiers |-> <<>>]]

Institute == [url |-> "/nih", name |-> "NIH"]

\* The documents of one topic id: the bare topic, each association kind on
\* its own (resolvable references, unresolvable ones "9"/"G9"/"D9", and
\* both in either order), and a topic carrying every kind.
TopicDocumentsOf(id) ==
    {TopicDocument(id, EmptyDoc, <<>>, <<>>, <<>>, <<>>, <<>>),
     TopicDocument(id, Institute, Named(<<"A1">>), GroupRefs(<<"G1">>),
                   MeshHeadings(<<"D1">>), RelatedRefs(<<"1", "2">>),
                   Named(<<"S1">>))}
    \cup {TopicDocument(id, EmptyDoc, <<>>, <<>>, <<>>, RelatedRefs(r), <<>>) :
            r \in {<<"1">>, <<"2">>, <<"9">>, <<"2", "9">>, <<"9", "2">>,
                   <<"2", "2">>}}
    \cup {TopicDocument(id, EmptyDoc, <<>>, GroupRefs(g), <<>>, <<>>, <<>>) :
            g \in {<<"G1">>, <<"G9">>, <<"G1", "G9">>, <<"G9", "G1">>}}
    \cup {TopicDocument(id, EmptyDoc, Named(a), <<>>, <<>>, <<>>, <<>>) :
            a \in {<<"A1">>, <<"A1", "A2">>}}
    \cup {TopicDocument(id, EmptyDoc, <<>>, <<>>, MeshHeadings(m), <<>>, <<>>) :
            m \in {<<"D1">>, <<"D1", "D9">>}}
    \cup {TopicDocument(id, Institute, <<>>, <<>>, <<>>, <<>>, Named(<<"S1">>))}

\* Streams of topic documents: as in a dump, the ids are distinct; they come
\* in increasing order.
RECURSIVE TopicStreamsFrom(_)
TopicStreamsFrom(id) ==
    IF id > MaxDocuments THEN {<<>>}
    ELSE TopicStreamsFrom(id + 1)
         \cup {<<d>> \o q : d \in TopicDocumentsOf(id),
                            q \in TopicStreamsFrom(id + 1)}

TopicStreams == TopicStreamsFrom(1)

\* The scraped body parts of both group pages.
BodyParts == BodyPartsPage("/g1") \o BodyPartsPage("/g2")

\* The store as the body-part step of topics mode leaves it.
TopicsDb ==
    [GroupsDb EXCEPT
        !.BodyPart = <<[name |-> "Heart", health_topic_group_id |-> 1],
                       [name |-> "Heart", health_topic_group_id |-> 2],
                       [name |-> "Lung", health_topic_group_id |-> 2]>>]

\* The store with the group classes persisted and no group yet.
ClassesDb ==
    [DescriptorsDb EXCEPT
        !.HealthTopicGroupClass = <<[name |-> "CA"], [name |-> "CB"]>>]

InitIngesters ==
    /\ mode \in {"groups", "topics"}
    /\ pc = IF mode = "groups" THEN "groups" ELSE "pass1"
    /\ tasks = <<>>
    /\ file_xml = <<>>
    /\ \/ /\ mode = "groups"
          /\ health_topic_group_classes \in Taxonomies
          /\ health_topic_body_parts = <<>>
          /\ documents \in SeqsUpTo(GroupDocuments, MaxDocuments)
          /\ db \in {DescriptorsDb, ClassesDb}
       \/ /\ mode = "topics"
          /\ health_topic_group_classes = <<>>
          /\ \E setup \in {<<<<>>, GroupsDb>>, <<BodyParts, TopicsDb>>,
                            <<BodyParts, GroupsDb>>} :
                /\ health_topic_body_parts = setup[1]
                /\ db = setup[2]
          /\ documents \in TopicStreams
    /\ pos = 1
    /\ calls = <<>>
    /\ exc = NoExc
    /\ run = 1
    /\ db_run1 = EmptyDb
    /\ start_tag = NoneStr
    /\ populated = {}
    /\ yielded = <<>>

\* ingester_groups.ingest(document=group) for the next document.
IngestGroupDocument ==
    /\ pc = "groups" /\ exc = NoExc
    /\ pos <= Len(documents)
    /\ LET st == IngesterMedlineGroups_ingest(
                    Ctx(db, calls), health_topic_group_classes,
                    documents[pos])
       IN  /\ db' = st.db
           /\ calls' = st.calls
           /\ exc' = st.exc
           /\ pos' = IF st.exc = NoExc THEN pos + 1 ELSE pos
    /\ UNCHANGED <<mode, pc, health_topic_group_classes, tasks,
                   health_topic_body_parts, file_xml, documents, run, db_run1,
                   start_tag, populated, yielded>>

\* The topics loop in a single pass: the related-topic links are ingested
\* while the stream is read for the first time.
IngestTopicDocument_linking ==
    /\ pc \in {"pass1", "pass2"} /\ exc = NoExc
    /\ pos <= Len(documents)
    /\ LET st == IngesterMedlineHealthTopics_ingest(
                    Ctx(db, calls), health_topic_body_parts,
                    documents[pos], TRUE)
       IN  /\ db' = st.db
           /\ calls' = st.calls
           /\ exc' = st.exc
           /\ pos' = IF st.exc = NoExc THEN pos + 1 ELSE pos
    /\ UNCHANGED <<mode, pc, health_topic_group_classes, tasks,
                   health_topic_body_parts, file_xml, documents, run, db_run1,
                   start_tag, populated, yielded>>

\* The topics loop taking the documents of the stream last to first.
IngestTopicDocument_reversed ==
    /\ pc \in {"pass1", "pass2"} /\ exc = NoExc
    /\ pos <= Len(documents)
    /\ LET st == IngesterMedlineHealthTopics_ingest(
                    Ctx(db, calls), health_topic_body_parts,
                    documents[Len(documents) + 1 - pos], pc = "pass2")
       IN  /\ db' = st.db
           /\ calls' = st.calls
           /\ exc' = st.exc
           /\ pos' = IF st.exc = NoExc THEN pos + 1 ELSE pos
    /\ UNCHANGED <<mode, pc, health_topic_group_classes, tasks,
                   health_topic_body_parts, file_xml, documents, run, db_run1,
                   start_tag, populated, yielded>>

\* ingester_topics.ingest(document=topic, do_ingest_links=...) for the next
\* document, in pass 1 (False) or pass 2 (True).
IngestTopicDocument ==
    /\ pc \in {"pass1", "pass2"} /\ exc = NoExc
    /\ pos <= Len(documents)
    /\ LET st == IngesterMedlineHealthTopics_ingest(
                    Ctx(db, calls), health_topic_body_parts,
                    documents[pos], pc = "pass2")
       IN  /\ db' = st.db
           /\ calls' = st.calls
           /\ exc' = st.exc
           /\ pos' = IF st.exc = NoExc THEN pos + 1 ELSE pos
    /\ UNCHANGED <<mode, pc, health_topic_group_classes, tasks,
                   health_topic_body_parts, file_xml, documents, run, db_run1,
                   start_tag, populated, yielded>>

\* The stream is exhausted: pass 2 follows pass 1, the run ends otherwise.
EndOfDocuments ==
    /\ pc \in {"groups", "pass1", "pass2"} /\ exc = NoExc
    /\ pos > Len(documents)
    /\ pc' = IF pc = "pass1" THEN "pass2" ELSE "done"
    /\ pos' = IF pc = "pass1" THEN 1 ELSE pos
    /\ UNCHANGED <<mode, health_topic_group_classes, tasks,
                   health_topic_body_parts, file_xml, documents, db, calls,
                   exc, run, db_run1,
                   start_tag, populated, yielded>>

\* The same streams are ingested again against the store the run left.
RerunIngesters ==
    /\ RunEnded
    /\ run + 1 \in Runs
    /\ run' = run + 1
    /\ db_run1' = db
    /\ pc' = IF mode = "groups" THEN "groups" ELSE "pass1"
    /\ pos' = 1
    /\ calls' = <<>>
    /\ exc' = NoExc
    /\ UNCHANGED <<mode, health_topic_group_classes, tasks,
                   health_topic_body_parts, file_xml, documents, db,
                   start_tag, populated, yielded>>

NextIngesters ==
    \/ IngestGroupDocument
    \/ IngestTopicDocument
    \/ EndOfDocuments
    \/ RerunIngesters

SpecIngesters == InitIngesters /\ [][NextIngesters]_vars

-----------------------------------------------------------------------------
(* parse() event by event (parsers.py) *)

\* The tag parse() extracts: ParserXmlMedlineGroups in groups mode,
\* ParserXmlMedlineHealthTopic in topics mode.
ElementTag == IF mode = "groups" THEN "group" ELSE "health-topic"

Events == iterparse(file_xml, ElementTag)

\* <group> elements of a group file: plain, Spanish, without id, with a
\* non-numeric id, with whitespace-only text, without text, with padded
\* text, with a <group> nested in it, and inside an element of another tag.
ParserGroupElements ==
    {GroupElement("English", "1", "G1"),
     GroupElement("Spanish", "2", "G2"),
     Element("group", [language |-> "English", url |-> "/g1"], "G1", <<>>),
     GroupElement("English", "abc", "G1"),
     Element("group", [language |-> "English", id |-> "2", url |-> "/g2"],
             " ", <<>>),
     Element("group", [language |-> "English", id |-> "2", url |-> "/g2"],
             NoneStr, <<>>),
     Element("group", [language |-> "English", id |-> "1", url |-> "/g1"],
             " G1 ", <<>>),
     Element("group", [language |-> "English", id |-> "1", url |-> "/g1"],
             "G1", <<GroupElement("English", "2", "G2")>>),
     Element("other", <<>>, NoneStr, <<GroupElement("English", "2", "G2")>>)}

\* The children of a <health-topic> element: all seven kinds, none, all but
\* one kind, a mesh-heading without descriptor, an also-called with
\* whitespace-only text, a group without id.
ParserTopicChildren ==
    {TopicChildren, <<>>}
    \cup {SelectSeq(TopicChildren, LAMBDA c : c.tag # t) :
             t \in {TopicChildren[i].tag : i \in DOMAIN TopicChildren}}
    \cup {<<Element("mesh-heading", <<>>, NoneStr,
                    <<Element("qualifier", [id |-> "Q1"], "Qual", <<>>)>>)>>,
          <<Element("also-called", <<>>, " ", <<>>)>>,
          <<Element("group", [url |-> "/g1"], "G1", <<>>)>>}

\* <health-topic> elements of a topic file: the children above, a
\* <health-topic> nested in another, Spanish, a non-numeric id, a date of
\* another format, no id, no date-created.
ParserTopicElements ==
    {TopicElement("English", "1", "01/15/2020", c) : c \in ParserTopicChildren}
    \cup {TopicElement("English", "1", "01/15/2020",
                       <<TopicElement("English", "2", "01/15/2020", <<>>)>>),
          TopicElement("Spanish", "2", "01/15/2020", TopicChildren),
          TopicElement("English", "abc", "01/15/2020", <<>>),
          TopicElement("English", "1", "2020-01-15", <<>>),
          Element("health-topic",
                  ("language" :> "English") @@ ("title" :> "T1")
                  @@ ("url" :> "/t") @@ ("meta-desc" :> "desc")
                  @@ ("date-created" :> "01/15/2020"),
                  NoneStr, <<>>),
          Element("health-topic",
                  ("language" :> "English") @@ ("id" :> "1")
                  @@ ("title" :> "T1") @@ ("url" :> "/t")
                  @@ ("meta-desc" :> "desc"),
                  NoneStr, <<>>)}

\* parse() opens the file and starts the extractor.
InitParsers ==
    /\ mode \in {"groups", "topics"}
    /\ file_xml \in SeqsUpTo(IF mode = "groups" THEN ParserGroupElements
                             ELSE ParserTopicElements, MaxElements)
    /\ pc = "iterparse"
    /\ pos = 1
    /\ start_tag = NoneStr
    /\ populated = {}
    /\ yielded = <<>>
    /\ documents = <<>>
    /\ exc = NoExc
    /\ health_topic_group_classes = <<>>
    /\ tasks = <<>>
    /\ health_topic_body_parts = <<>>
    /\ db = EmptyDb
    /\ calls = <<>>
    /\ run = 1
    /\ db_run1 = EmptyDb

\* A start event: the parser has begun building the element; start_tag is
\* set when it is None.
StartEvent ==
    /\ pc = "iterparse" /\ exc = NoExc
    /\ pos <= Len(Events)
    /\ Events[pos].event = "start"
    /\ start_tag' = IF start_tag = NoneStr
                    THEN ElementAt(Root(file_xml), Events[pos].path).tag
                    ELSE start_tag
    /\ populated' = populated \cup {Events[pos].path}
    /\ pos' = pos + 1
    /\ UNCHANGED <<mode, pc, health_topic_group_classes, tasks,
                   health_topic_body_parts, file_xml, documents, db, calls,
                   exc, run, db_run1, yielded>>

\* An end event: the element is yielded when its tag equals start_tag, and
\* the generator is suspended at the yield; otherwise the loop goes on.
EndEvent ==
    /\ pc = "iterparse" /\ exc = NoExc
    /\ pos <= Len(Events)
    /\ Events[pos].event = "end"
    /\ IF ElementAt(Root(file_xml), Events[pos].path).tag = start_tag
       THEN /\ yielded' = Append(yielded,
                                 ElementAt(Root(file_xml), Events[pos].path))
            /\ pc' = "decode"
            /\ pos' = pos
       ELSE /\ pos' = pos + 1
            /\ UNCHANGED <<pc, yielded>>
    /\ UNCHANGED <<mode, health_topic_group_classes, tasks,
                   health_topic_body_parts, file_xml, documents, db, calls,
                   exc, run, db_run1, start_tag, populated>>

\* The body of parse()'s loop: the yielded element is decoded, an empty
\* document is skipped, another is yielded to the caller; an exception of
\* the decoder leaves parse().
Decode ==
    /\ pc = "decode" /\ exc = NoExc
    /\ LET element == yielded[Len(yielded)]
           parsed == IF mode = "groups" THEN parse_health_topic_group(element)
                     ELSE parse_health_topic(element)
       IN  /\ exc' = parsed.exc
           /\ documents' = IF parsed.exc # NoExc \/ IsEmptyDoc(parsed.document)
                           THEN documents
                           ELSE Append(documents, parsed.document)
           /\ pc' = IF parsed.exc = NoExc THEN "resume" ELSE pc
    /\ UNCHANGED <<mode, health_topic_group_classes, tasks,
                   health_topic_body_parts, file_xml, pos, db, calls, run,
                   db_run1, start_tag, populated, yielded>>

\* The generator is resumed after the yield: start_tag = None and
\* element.clear().
Resume ==
    /\ pc = "resume" /\ exc = NoExc
    /\ start_tag' = NoneStr
    /\ populated' = populated \ {Events[pos].path}
    /\ pos' = pos + 1
    /\ pc' = "iterparse"
    /\ UNCHANGED <<mode, health_topic_group_classes, tasks,
                   health_topic_body_parts, file_xml, documents, db, calls,
                   exc, run, db_run1, yielded>>

\* iterparse is exhausted: parse() returns.
EndOfEvents ==
    /\ pc = "iterparse" /\ exc = NoExc
    /\ pos > Len(Events)
    /\ pc' = "done"
    /\ UNCHANGED <<mode, health_topic_group_classes, tasks,
                   health_topic_body_parts, file_xml, documents, pos, db,
                   calls, exc, run, db_run1, start_tag, populated, yielded>>

NextParsers ==
    \/ StartEvent
    \/ EndEvent
    \/ Decode
    \/ Resume
    \/ EndOfEvents

SpecParsers == InitParsers /\ [][NextParsers]_vars

-----------------------------------------------------------------------------
(* Properties *)

\* The calls of the current run made through DAL method `op`.
CallsOf(op) == SelectSeq(calls, LAMBDA c : c.op = op)

\* The id of the persisted HealthTopic with that ui, or None.
TopicIdOf(ui) ==
    LET hit == {i \in DOMAIN db.HealthTopic : db.HealthTopic[i].ui = ui}
    IN  IF hit = {} THEN None ELSE Min(hit)

\* The number of related-topic join rows from topic `a` to topic `b`.
RelatedRows(a, b) ==
    Cardinality({i \in DOMAIN db.HealthTopicRelatedHealthTopic :
                   /\ db.HealthTopicRelatedHealthTopic[i].health_topic_id = a
                   /\ db.HealthTopicRelatedHealthTopic[i]
                         .related_health_topic_id = b})

\* The external ids of the topics of the stream.
StreamUis == {str(documents[i]["id"]) : i \in DOMAIN documents}

\* C1: while do_ingest_links is false (pass 1) no related-topic link upsert
\* is made, whatever the documents and the store: the run's call log holds
\* no such call and the related-topic table is as the run found it.
C1_NoRelatedLinksInPass1 ==
    pc = "pass1" =>
        /\ CallsOf("iodi_health_topic_related_health_topic") = <<>>
        /\ db.HealthTopicRelatedHealthTopic
              = (IF run = 1 THEN <<>>
                 ELSE db_run1.HealthTopicRelatedHealthTopic)

\* Pass 1 of a first run ingested every document of a stream whose first
\* topic refers to the second one, now persisted.
C1_Witness ==
    /\ pc = "pass1" /\ exc = NoExc /\ run = 1
    /\ Len(documents) = 2 /\ pos = 3
    /\ \E j \in DOMAIN documents[1]["related-topics"] :
          documents[1]["related-topics"][j].id = "2"
    /\ TopicIdOf("2") # None

\* C2: once pass 2 is over, every related-topic reference whose target is
\* among the topics of the stream has exactly one join row, also when
\* another reference has no persisted target.
C2_ResolvableLinkedAfterPass2 ==
    (mode = "topics" /\ pc \in {"pass2", "done"} /\ RunEnded) =>
        \A i \in DOMAIN documents :
           \A j \in DOMAIN documents[i]["related-topics"] :
              LET e == documents[i]["related-topics"][j].id
              IN  e \in StreamUis =>
                     RelatedRows(TopicIdOf(str(documents[i]["id"])),
                                 TopicIdOf(e)) = 1

\* The related-topic references of a document that resolve to no persisted
\* HealthTopic, and those that resolve.
RelatedMisses(document) ==
    {j \in DOMAIN document["related-topics"] :
        TopicIdOf(document["related-topics"][j].id) = None}

RelatedHits(document) ==
    DOMAIN document["related-topics"] \ RelatedMisses(document)

\* C3: in pass 2 a related-topic reference that resolves to no persisted
\* HealthTopic is skipped: the ingest raises nothing, the other related
\* topics of the document are linked and the run goes on to the next topic.
C3_RelatedMissSkipped ==
    [][(/\ mode = "topics" /\ pc = "pass2" /\ exc = NoExc
        /\ pos <= Len(documents)
        /\ RelatedMisses(documents[pos]) # {}
        /\ calls' # calls)
       => (/\ exc' = NoExc
           /\ pos' = pos + 1
           /\ \A j \in RelatedHits(documents[pos]) :
                 \E k \in DOMAIN db'.HealthTopicRelatedHealthTopic :
                    /\ db'.HealthTopicRelatedHealthTopic[k].health_topic_id
                          = TopicIdOf(str(documents[pos]["id"]))
                    /\ db'.HealthTopicRelatedHealthTopic[k]
                          .related_health_topic_id
                          = TopicIdOf(documents[pos]["related-topics"][j].id)
          )]_vars

\* The group references of a document that name no persisted
\* HealthTopicGroup.
GroupMisses(document) ==
    {j \in DOMAIN document["groups"] :
        \A k \in DOMAIN db.HealthTopicGroup :
           db.HealthTopicGroup[k].name # document["groups"][j].name}

\* C4: ingesting a topic that names a group with no persisted
\* HealthTopicGroup does not fail the run: the topic is persisted, the
\* ingest raises nothing and the run goes on to the next topic.
C4_GroupMissTolerated ==
    [][(/\ mode = "topics" /\ pc \in {"pass1", "pass2"} /\ exc = NoExc
        /\ pos <= Len(documents)
        /\ GroupMisses(documents[pos]) # {}
        /\ calls' # calls)
       => (/\ exc' = NoExc
           /\ pos' = pos + 1
           /\ \E k \in DOMAIN db'.HealthTopic :
                 db'.HealthTopic[k].ui = str(documents[pos]["id"]))]_vars

\* Class entry `entry` of the taxonomy lists a group of exactly that name.
Lists(entry, group_name) ==
    \E j \in DOMAIN entry.health_topic_groups :
       entry.health_topic_groups[j].name = group_name

\* The group document names a group that no class lists, or whose listing
\* class has no persisted HealthTopicGroupClass row.
Unresolved(document) ==
    \/ \A i \in DOMAIN health_topic_group_classes :
          ~Lists(health_topic_group_classes[i], document.name)
    \/ \E i \in DOMAIN health_topic_group_classes :
          /\ Lists(health_topic_group_classes[i], document.name)
          /\ \A j \in 1..(i - 1) :
                ~Lists(health_topic_group_classes[j], document.name)
          /\ \A k \in DOMAIN db.HealthTopicGroupClass :
                db.HealthTopicGroupClass[k].name
                   # health_topic_group_classes[i].name

\* The position of the first unresolved document of the stream, or one past
\* its end.
FirstUnresolved ==
    Min({i \in DOMAIN documents : Unresolved(documents[i])}
        \cup {Len(documents) + 1})

\* C5: in groups mode an unresolved group fails the whole run: the ingest
\* raises ValueError, no upsert is issued for that group and no later group
\* is ingested; the groups before it were upserted, one call each.
C5_UnresolvedGroupFailsRun ==
    (mode = "groups" /\ pc \in {"groups", "done"}) =>
        /\ pos <= FirstUnresolved
        /\ Len(CallsOf("iodu_health_topic_group")) = pos - 1
        /\ \A i \in 1..(pos - 1) :
              CallsOf("iodu_health_topic_group")[i].args.ui
                 = str(documents[i].id)
        /\ pc = "done" => FirstUnresolved = Len(documents) + 1
        /\ exc # NoExc => (exc = "ValueError" /\ pos = FirstUnresolved)

\* A run failed at an unresolved first group that is followed by a group
\* whose class is resolved.
C5_Witness ==
    /\ mode = "groups" /\ exc = "ValueError"
    /\ pos = 1 /\ Len(documents) = 2
    /\ ~Unresolved(documents[2])
    /\ CallsOf("iodu_health_topic_group") = <<>>

\* The element the parse loop of main() decodes next.
Elements ==
    generate_xml_elements(file_xml,
                          IF pc = "groups" THEN "group" ELSE "health-topic")

\* C6: a group or health-topic element whose language is "Spanish" decodes
\* to the empty document and its round of the loop, in groups mode and in
\* either pass of topics mode, issues no DAL call and changes no row.
C6_SpanishFiltered ==
    [][(/\ pc \in {"groups", "pass1", "pass2"} /\ exc = NoExc
        /\ pos <= Len(Elements)
        /\ _eav(Elements[pos], "language") = "Spanish")
       => (/\ (IF pc = "groups"
                THEN parse_health_topic_group(Elements[pos])
                ELSE parse_health_topic(Elements[pos])) = Parsed(EmptyDoc)
           /\ db' = db
           /\ calls' = calls
           /\ exc' = NoExc
           /\ pos' = pos + 1)]_vars

\* The groups loop went past a Spanish group that follows an upserted
\* English one.
C6_Witness ==
    /\ pc = "groups" /\ exc = NoExc
    /\ pos = 3
    /\ _eav(Elements[1], "language") = "English"
    /\ _eav(Elements[2], "language") = "Spanish"
    /\ Len(CallsOf("iodu_health_topic_group")) = 1

\* No two rows of a table agree on every field of `keys`.
Unique(tbl, keys) ==
    \A i, j \in DOMAIN tbl :
       i # j => \E k \in keys : tbl[i][k] # tbl[j][k]

NoDuplicateRows ==
    /\ Unique(db.HealthTopicGroupClass, {"name"})
    /\ Unique(db.HealthTopicGroup, {"ui"})
    /\ Unique(db.BodyPart, {"name", "health_topic_group_id"})
    /\ Unique(db.HealthTopic, {"ui"})
    /\ Unique(db.PrimaryInstitute, {"name"})
    /\ Unique(db.AlsoCalled, {"name"})
    /\ Unique(db.SeeReference, {"name"})
    /\ Unique(db.HealthTopicAlsoCalled, {"health_topic_id", "also_called_id"})
    /\ Unique(db.HealthTopicHealthTopicGroup,
              {"health_topic_id", "health_topic_group_id"})
    /\ Unique(db.HealthTopicDescriptor, {"health_topic_id", "descriptor_id"})
    /\ Unique(db.HealthTopicRelatedHealthTopic,
              {"health_topic_id", "related_health_topic_id"})
    /\ Unique(db.HealthTopicSeeReference,
              {"health_topic_id", "see_reference_id"})
    /\ Unique(db.HealthTopicBodyPart, {"health_topic_id", "body_part_id"})

\* C7: ingesting the same groups, or the same topics in both passes, a second
\* time against the same taxonomy leaves the store as the first run left it,
\* and no run leaves two rows with the same key or two equal join rows.
C7_Idempotent ==
    RunEnded => /\ NoDuplicateRows
                /\ run = 2 => db = db_run1

\* A second topics run completed both passes and the store holds join rows.
C7_Witness ==
    /\ mode = "topics" /\ pc = "done" /\ run = 2
    /\ Len(documents) = 2
    /\ db.HealthTopicRelatedHealthTopic # <<>>
    /\ db.HealthTopicAlsoCalled # <<>>

\* C8: in pass 1 the ingester accepts the document the parser decoded and,
\* for every also-called element of the topic, an AlsoCalled row of that
\* name and a join row from the topic to it exist afterwards.
C8_AlsoCalledsIngested ==
    [][(/\ mode = "topics" /\ pc = "pass1" /\ exc = NoExc
        /\ pos <= Len(Elements)
        /\ parse_health_topic(Elements[pos]).exc = NoExc
        /\ ~IsEmptyDoc(parse_health_topic(Elements[pos]).document))
       => (/\ exc' # "KeyError"
           /\ \A a \in DOMAIN findall(Elements[pos], "also-called") :
                 \E k \in DOMAIN db'.AlsoCalled :
                    /\ db'.AlsoCalled[k].name
                          = _et(findall(Elements[pos], "also-called")[a])
                    /\ \E r \in DOMAIN db'.HealthTopicAlsoCalled :
                          db'.HealthTopicAlsoCalled[r].also_called_id = k)
      ]_vars

\* C9: every group upserted in groups mode is given the first class of the
\* taxonomy, in taxonomy order, that lists a group of exactly its name, and
\* the persisted row of an upserted group carries that class.
FirstListingClass(group_name, class_id) ==
    /\ class_id \in DOMAIN db.HealthTopicGroupClass
    /\ \E i \in DOMAIN health_topic_group_classes :
          /\ health_topic_group_classes[i].name
                = db.HealthTopicGroupClass[class_id].name
          /\ Lists(health_topic_group_classes[i], group_name)
          /\ \A j \in 1..(i - 1) :
                ~Lists(health_topic_group_classes[j], group_name)

C9_FirstListingClass ==
    (mode = "groups" /\ pc \in {"groups", "done"}) =>
        /\ \A k \in DOMAIN CallsOf("iodu_health_topic_group") :
              LET row == CallsOf("iodu_health_topic_group")[k].args
              IN  FirstListingClass(row.name, row.health_topic_group_class_id)
        /\ \A g \in DOMAIN db.HealthTopicGroup :
              (\E k \in DOMAIN CallsOf("iodu_health_topic_group") :
                  CallsOf("iodu_health_topic_group")[k].args.ui
                     = db.HealthTopicGroup[g].ui)
              => FirstListingClass(
                    db.HealthTopicGroup[g].name,
                    db.HealthTopicGroup[g].health_topic_group_class_id)

\* A groups run ended after upserting group G1 under a taxonomy in which two
\* classes list G1.
C9_Witness ==
    /\ mode = "groups" /\ pc = "done"
    /\ Len(health_topic_group_classes) = 2
    /\ \A i \in DOMAIN health_topic_group_classes :
          Lists(health_topic_group_classes[i], "G1")
    /\ \E k \in DOMAIN CallsOf("iodu_health_topic_group") :
          CallsOf("iodu_health_topic_group")[k].args.name = "G1"

\* C10: once one of the body-part scrapes has failed the run never gets past
\* the gather, in whatever order the scrapes complete: the gather raises the
\* fetch error, no body-part taxonomy is returned and no DAL call is made in
\* that run.
C10_FetchFailureAbortsGather ==
    (mode = "topics" /\ \E i \in DOMAIN tasks : tasks[i] = "failed") =>
        /\ pc = "scrape_body_parts"
        /\ health_topic_body_parts = <<>>
        /\ calls = <<>>
        /\ run = 2 => db = db_run1
        /\ exc \in {NoExc, "MedlinePlusHttpRequestGetError"}
        /\ (\A i \in DOMAIN tasks : tasks[i] # "pending") =>
              _scrape_health_topic_body_parts(
                 GroupUrls(health_topic_group_classes), tasks).exc
                 = "MedlinePlusHttpRequestGetError"

\* The gather raised after one scrape returned its page and a later one
\* failed.
C10_Witness ==
    /\ mode = "topics" /\ exc = "MedlinePlusHttpRequestGetError"
    /\ \E i, j \in DOMAIN tasks :
          i < j /\ tasks[i] = "ok" /\ tasks[j] = "failed"

\* The positions of the call log at which a record's ingest begins its
\* writes for the record itself: the HealthTopic upsert in topics mode, the
\* HealthTopicGroup upsert in groups mode.
RecordUpserts ==
    {c \in DOMAIN calls :
        calls[c].op = (IF mode = "groups" THEN "iodu_health_topic_group"
                       ELSE "iodu_health_topic")}

\* The number of record upserts made up to position c of the call log.
UpsertsUpTo(c) == Cardinality({u \in RecordUpserts : u <= c})

\* C11: within a pass the persisted side effects follow document order: the
\* k-th record upsert of the run is the one of the k-th document of the
\* stream (pass 2 starting over), no record is begun before the loop has
\* reached it, and every join row written after the upsert of a record and
\* before the upsert of the next one belongs to that record.
C11_DocumentOrder ==
    pc \in {"groups", "pass1", "pass2", "done"} =>
        /\ \A u \in RecordUpserts :
              calls[u].args.ui
                 = str(documents[((UpsertsUpTo(u) - 1) % Len(documents)) + 1]
                          .id)
        /\ Cardinality(RecordUpserts)
              \in (IF pc = "pass2" THEN {Len(documents) + pos - 1,
                                         Len(documents) + pos}
                   ELSE IF pc = "done"
                   THEN {IF mode = "groups" THEN Len(documents)
                         ELSE 2 * Len(documents)}
                   ELSE {pos - 1, pos})
        /\ Cardinality(RecordUpserts) > 0 => Len(documents) > 0
        /\ \A c \in DOMAIN calls :
              "health_topic_id" \in DOMAIN calls[c].args =>
                 \E u \in RecordUpserts :
                    /\ u < c
                    /\ \A v \in RecordUpserts : v < c => v <= u
                    /\ TopicIdOf(calls[u].args.ui)
                          = calls[c].args.health_topic_id

\* Pass 2 ingested both topics of a stream, each with rows of its own.
C11_Witness ==
    /\ mode = "topics" /\ pc = "pass2" /\ exc = NoExc
    /\ Len(documents) = 2 /\ pos = 3
    /\ \A i \in 1..2 :
          \E c \in DOMAIN calls :
             /\ calls[c].op = "iodi_health_topic_related_health_topic"
             /\ calls[c].args.health_topic_id
                   = TopicIdOf(str(documents[i].id))

\* The descriptor references of a document that resolve to no persisted
\* Descriptor, and the body parts the taxonomy names for its title that
\* resolve to no persisted BodyPart.
DescriptorMisses(document) ==
    {j \in DOMAIN document["mesh-headings"] :
        \A k \in DOMAIN db.Descriptor :
           db.Descriptor[k].ui # document["mesh-headings"][j].descriptor.id}

BodyPartMisses(document) ==
    {j \in DOMAIN _get_topic_body_parts(health_topic_body_parts,
                                        document["title"]) :
        \A k \in DOMAIN db.BodyPart :
           db.BodyPart[k].name
              # _get_topic_body_parts(health_topic_body_parts,
                                      document["title"])[j]}

\* C12: a descriptor or body-part reference of a topic that resolves to no
\* persisted row is skipped: the ingest of the topic raises nothing, the
\* see-references of the topic still get their join rows and the run goes
\* on to the next topic.
C12_DescriptorBodyPartMissSkipped ==
    [][(/\ mode = "topics" /\ pc \in {"pass1", "pass2"} /\ exc = NoExc
        /\ pos <= Len(documents)
        /\ GroupMisses(documents[pos]) = {}
        /\ pc = "pass2" => RelatedMisses(documents[pos]) = {}
        /\ \/ DescriptorMisses(documents[pos]) # {}
           \/ BodyPartMisses(documents[pos]) # {}
        /\ calls' # calls)
       => (/\ exc' = NoExc
           /\ pos' = pos + 1
           /\ \A j \in DOMAIN documents[pos]["see-references"] :
                 \E k \in DOMAIN db'.SeeReference :
                    /\ db'.SeeReference[k].name
                          = documents[pos]["see-references"][j].name
                    /\ \E r \in DOMAIN db'.HealthTopicSeeReference :
                          db'.HealthTopicSeeReference[r].see_reference_id = k)
      ]_vars

\* A call of the related-topic block: a HealthTopic lookup by ui or a
\* related-topic link upsert.
IsRelatedCall(c) ==
    \/ c.op = "iodi_health_topic_related_health_topic"
    \/ c.op = "get_by_attr" /\ c.args.orm_class = "HealthTopic"

\* The call log of the run without the calls of the related-topic block.
CallsButRelated == SelectSeq(calls, LAMBDA c : ~IsRelatedCall(c))

\* C13: pass 2 re-executes every pass-1 step on the same stream in the same
\* order: when pass 2 is over, the calls of the run other than the
\* related-topic lookups and link upserts are the pass-1 calls made twice,
\* and pass 1 made no call of the related-topic block.
C13_Pass2RepeatsPass1 ==
    (mode = "topics" /\ pc \in {"pass2", "done"} /\ RunEnded) =>
        LET half == Len(CallsButRelated) \div 2
        IN  /\ Len(CallsButRelated) = 2 * half
            /\ SubSeq(CallsButRelated, 1, half)
                  = SubSeq(CallsButRelated, half + 1, 2 * half)
            /\ \A c \in 1..half : ~IsRelatedCall(calls[c])

\* The same statement for the runs in which pass 2 reaches the end of the
\* stream.
C13_CompletedPass2RepeatsPass1 ==
    (mode = "topics" /\ pc = "done") =>
        LET half == Len(CallsButRelated) \div 2
        IN  /\ Len(CallsButRelated) = 2 * half
            /\ SubSeq(CallsButRelated, 1, half)
                  = SubSeq(CallsButRelated, half + 1, 2 * half)
            /\ \A c \in 1..half : ~IsRelatedCall(calls[c])

\* C20: IngesterMedlineHealthTopics.ingest returns the id of the HealthTopic
\* row it upserted for every non-empty document it ingests without raising,
\* and None only for an empty document.
C20_IngestReturnsTopicId ==
    [][(/\ mode = "topics" /\ pc \in {"pass1", "pass2"} /\ exc = NoExc
        /\ pos <= Len(documents)
        /\ ~IsEmptyDoc(documents[pos])
        /\ pos' = pos + 1)
       => (/\ \E k \in DOMAIN db'.HealthTopic :
                 db'.HealthTopic[k].ui = str(documents[pos].id)
           /\ IngesterMedlineHealthTopics_ingest(
                 Ctx(db, calls), health_topic_body_parts, documents[pos],
                 pc = "pass2").ret # None
           /\ db'.HealthTopic[
                 IngesterMedlineHealthTopics_ingest(
                    Ctx(db, calls), health_topic_body_parts, documents[pos],
                    pc = "pass2").ret].ui = str(documents[pos].id))]_vars

\* The element has an id attribute that is not a number; the health-topic
\* element has a numeric id and a date-created that is not MM/DD/YYYY.
NonNumericId(element) ==
    /\ _eav(element, "id") # NoneStr
    /\ _eav(element, "id") \notin NumericStrings

MalformedDate(element) ==
    /\ _eav(element, "id") \in NumericStrings
    /\ _eav(element, "date-created") \notin {NoneStr, "01/15/2020"}

\* C17: a non-Spanish group or health-topic element with a non-numeric id,
\* or a health-topic with a date-created of another format, is fatal: the
\* decoder raises ValueError out of parse(), nothing is written for the
\* element, and the run ingests no record at or after it (a run that raised
\* takes no further step).
C17_DecodeErrorFatal ==
    [][/\ (/\ pc \in {"groups", "pass1", "pass2"} /\ exc = NoExc
           /\ pos <= Len(Elements)
           /\ _eav(Elements[pos], "language") # "Spanish"
           /\ \/ NonNumericId(Elements[pos])
              \/ pc # "groups" /\ MalformedDate(Elements[pos]))
          => (/\ exc' = "ValueError"
              /\ db' = db
              /\ calls' = calls
              /\ pos' = pos
              /\ pc' = pc)
       /\ exc # NoExc => run' # run]_vars

\* The groups loop raised at a group element with a non-numeric id, after
\* the group before it was upserted.
C17_Witness ==
    /\ pc = "groups" /\ exc = "ValueError"
    /\ pos = 2
    /\ NonNumericId(Elements[2])
    /\ Len(CallsOf("iodu_health_topic_group")) = 1

\* The extractor of the event-by-event specification yields what
\* generate_xml_elements computes.
ExtractorAgrees ==
    pc = "done" => yielded = generate_xml_elements(file_xml, ElementTag)

\* A <health-topic> element that is decoded in full: not Spanish, with a
\* numeric id and a date-created of the expected format, and whose <group>
\* children have a numeric id.
DecodableTopic(element) ==
    /\ element.tag = "health-topic"
    /\ _eav(element, "language") # "Spanish"
    /\ _eav(element, "id") \in NumericStrings
    /\ _eav(element, "date-created") = "01/15/2020"
    /\ \A j \in DOMAIN findall(element, "group") :
          _eav(findall(element, "group")[j], "id") \in NumericStrings

\* The document decoded from an element has the empty value in the field of
\* every kind of nested element the element lacks.
AbsentDecodedEmpty(element, document) ==
    /\ findall(element, "also-called") = <<>>
          => document["also_calleds"] = <<>>
    /\ find(element, "full-summary") = NoElement
          => document["full-summary"] = NoneStr
    /\ findall(element, "group") = <<>> => document["groups"] = <<>>
    /\ findall(element, "mesh-heading") = <<>>
          => document["mesh-headings"] = <<>>
    /\ find(element, "primary-institute") = NoElement
          => document["primary-institute"] = EmptyDoc
    /\ findall(element, "related-topic") = <<>>
          => document["related-topics"] = <<>>
    /\ findall(element, "see-reference") = <<>>
          => document["see-references"] = <<>>
    /\ \A j \in DOMAIN findall(element, "mesh-heading") :
          LET heading == findall(element, "mesh-heading")[j]
          IN  /\ find(heading, "descriptor") = NoElement
                    => document["mesh-headings"][j].descriptor = EmptyDoc
              /\ findall(heading, "qualifier") = <<>>
                    => document["mesh-headings"][j].qualifiers = <<>>

\* C14: decoding never fails on a missing optional nested element: for every
\* health-topic element the extractor yields that is decoded in full,
\* whatever nested elements it lacks, parse_health_topic raises nothing and
\* the field of each missing kind is an empty list, an empty document or
\* None; parse() raised on no such element.
C14_MissingOptionalDecodes ==
    mode = "topics" =>
        /\ \A i \in DOMAIN yielded :
              DecodableTopic(yielded[i]) =>
                 /\ parse_health_topic(yielded[i]).exc = NoExc
                 /\ AbsentDecodedEmpty(
                       yielded[i], parse_health_topic(yielded[i]).document)
        /\ exc # NoExc => ~DecodableTopic(yielded[Len(yielded)])
        /\ pc = "done" =>
              Len(documents)
                 = Cardinality({i \in DOMAIN yielded :
                                   DecodableTopic(yielded[i])})

\* parse() went through a file holding a health-topic without any child and
\* one whose mesh-heading has no descriptor, and yielded both documents.
C14_Witness ==
    /\ mode = "topics" /\ pc = "done" /\ Len(documents) = 2
    /\ \E i \in DOMAIN yielded : yielded[i].children = <<>>
    /\ \E i \in DOMAIN yielded :
          /\ findall(yielded[i], "mesh-heading") # <<>>
          /\ find(findall(yielded[i], "mesh-heading")[1], "descriptor")
                = NoElement

\* The decoder parse() applies to the elements it extracts.
Decoded(element) ==
    IF mode = "groups" THEN parse_health_topic_group(element)
    ELSE parse_health_topic(element)

\* A non-Spanish element that lacks a required attribute: the id, or the
\* date-created of a health-topic.
MissingRequired(element) ==
    /\ _eav(element, "language") # "Spanish"
    /\ \/ _eav(element, "id") = NoneStr
       \/ /\ element.tag = "health-topic"
          /\ _eav(element, "date-created") = NoneStr

\* C15: a decode function returns the empty document and raises nothing
\* when a required attribute of the element is missing: parse() skips the
\* element and goes on.
C15_MissingRequiredDecodesEmpty ==
    \A i \in DOMAIN yielded :
       (/\ MissingRequired(yielded[i])
        /\ (i < Len(yielded) \/ pc # "decode" \/ exc # NoExc))
          => /\ Decoded(yielded[i]) = Parsed(EmptyDoc)
             /\ exc = NoExc

\* Every element of the subtree of `element`, the element included.
RECURSIVE Subtree(_)
Subtree(element) ==
    {element}
    \cup UNION {Subtree(element.children[i]) : i \in DOMAIN element.children}

\* C16: _et never returns an empty string: for every element of the
\* subtrees the extractor yields its result is None or a non-empty string,
\* and so is every name of a decoded group document.
C16_TextNeverEmptyString ==
    /\ \A i \in DOMAIN yielded :
          \A element \in Subtree(yielded[i]) : _et(element) # ""
    /\ mode = "groups" =>
          \A i \in DOMAIN documents : documents[i].name # ""

\* The elements of the file whose tag is the target tag, in document order
\* (the order of their start tags), each with its subtree.
MatchedElements ==
    LET starts == SelectSeq(Events, LAMBDA ev : ev.event = "start")
    IN  [k \in DOMAIN starts |-> ElementAt(Root(file_xml), starts[k].path)]

\* No element of the target tag lies inside another element of that tag.
FlatFile == \A k \in DOMAIN Events : Len(Events[k].path) = 1 \/
               \A j \in DOMAIN Events :
                  ~(/\ Len(Events[j].path) < Len(Events[k].path)
                    /\ SubSeq(Events[k].path, 1, Len(Events[j].path))
                          = Events[j].path)

\* C18: the extractor yields exactly the elements whose tag is the target
\* tag, each once, in document order, each with its descendants attached:
\* what it has yielded is always made of elements of the file with their
\* subtrees, and when the file is exhausted it is the sequence of all of
\* them.
C18_YieldsEveryMatch ==
    /\ \A i \in DOMAIN yielded :
          \E k \in DOMAIN MatchedElements : yielded[i] = MatchedElements[k]
    /\ pc = "done" => yielded = MatchedElements

\* The same statement for the files in which no element of the target tag is
\* nested in another.
C18_FlatFilesYieldEveryMatch ==
    (FlatFile /\ pc = "done") => yielded = MatchedElements

\* The matched elements that are built, not cleared, and not inside another
\* such element: the subtrees the extractor retains.
RetainedSubtrees ==
    {p \in populated :
        \A q \in populated :
           ~(Len(q) < Len(p) /\ SubSeq(p, 1, Len(q)) = q)}

\* C19: at every point of an extraction at most one matched subtree is
\* materialized: each yielded subtree is cleared before the next one is
\* built, so the retained subtrees do not grow with the number of records.
C19_OneSubtreeRetained ==
    Cardinality(RetainedSubtrees) <= 1

\* The same statement for the files in which no element of the target tag is
\* nested in another.
C19_FlatFilesOneSubtreeRetained ==
    FlatFile => Cardinality(RetainedSubtrees) <= 1

\* The positions of the call log that only an ingest call with
\* do_ingest_links = true makes: the calls of the related-topic block.
LinkingCalls == {c \in DOMAIN calls : IsRelatedCall(calls[c])}

\* C21: pass 2 starts only after pass 1 has ingested the last topic of the
\* stream: a call of the related-topic block is made in pass 2 only, every
\* topic of the stream was upserted earlier in the run, and by then the
\* store holds a HealthTopic row for each of them.
C21_Pass2AfterPass1 ==
    mode = "topics" =>
        /\ pc = "pass1" => LinkingCalls = {}
        /\ pc = "pass2" => Cardinality(RecordUpserts) >= Len(documents)
        /\ \A c \in LinkingCalls :
              /\ pc \in {"pass2", "done"}
              /\ UpsertsUpTo(c) > Len(documents)
              /\ \A i \in DOMAIN documents :
                    /\ \E u \in RecordUpserts :
                          u < c /\ calls[u].args.ui = str(documents[i].id)
                    /\ TopicIdOf(str(documents[i].id)) # None

\* In the first run the first topic of a stream of two looked up the second
\* one, which pass 1 had persisted after it.
C21_Witness ==
    /\ mode = "topics" /\ pc = "pass2" /\ run = 1
    /\ Len(documents) = 2
    /\ \E c \in LinkingCalls :
          /\ calls[c].op = "get_by_attr"
          /\ calls[c].args.attr_value = "2"
          /\ UpsertsUpTo(c) = 3
    /\ TopicIdOf("2") # None

\* The scraped entries that carry a name: the ingesters of the group classes
\* and of the body parts return at once for the others.
WithName(entries) ==
    SelectSeq(entries, LAMBDA e : e.name # NoneStr /\ e.name # "")

\* The id of the persisted HealthTopicGroup with that url, or None.
GroupIdOfUrl(url) ==
    LET hit == {i \in DOMAIN db.HealthTopicGroup :
                  db.HealthTopicGroup[i].url = url}
    IN  IF hit = {} THEN None ELSE Min(hit)

\* The calls an ingest of a group or of a topic makes.
IsRecordCall(c) ==
    c.op \notin {"iodi_health_topic_group_class", "iodi_body_part"}
    /\ ~(c.op = "get_by_attr" /\ c.args.orm_class = "HealthTopicGroup"
         /\ c.args.attr_name = "url")

C22_GroupsWitness ==
    /\ mode = "groups" /\ pc = "groups"
    /\ Len(CallsOf("iodi_health_topic_group_class")) = 2
    /\ CallsOf("iodu_health_topic_group") # <<>>

\* The elements of the target tag that lie inside no other element of that
\* tag, in document order, each with its subtree.
OutermostElements ==
    LET starts == SelectSeq(Events,
                            LAMBDA ev :
                               /\ ev.event = "start"
                               /\ \A j \in DOMAIN Events :
                                     ~(/\ Len(Events[j].path) < Len(ev.path)
                                       /\ SubSeq(ev.path, 1,
                                                 Len(Events[j].path))
                                             = Events[j].path))
    IN  [k \in DOMAIN starts |-> ElementAt(Root(file_xml), starts[k].path)]

\* C23: when an element of the target tag is nested in another element of
\* that tag the extractor yields the outermost one, with the nested one
\* inside it, and never the nested one on its own: what it has yielded is
\* at every point the outermost elements met so far, and all of them when
\* the file is exhausted.
C23_NestedYieldsOutermost ==
    /\ Len(yielded) <= Len(OutermostElements)
    /\ \A i \in DOMAIN yielded :
          i <= Len(OutermostElements) => yielded[i] = OutermostElements[i]
    /\ pc = "done" => yielded = OutermostElements

\* The link upserts of a topic ingest: for each DAL method the column that
\* holds the target id and the table the target row lives in.
LinkOps ==
    {"iodi_health_topic_also_called", "iodi_health_topic_health_topic_group",
     "iodi_health_topic_descriptor", "iodi_health_topic_related_health_topic",
     "iodi_health_topic_see_reference", "iodi_health_topic_body_part"}

LinkField(op) ==
    CASE op = "iodi_health_topic_also_called" -> "also_called_id"
      [] op = "iodi_health_topic_health_topic_group" -> "health_topic_group_id"
      [] op = "iodi_health_topic_descriptor" -> "descriptor_id"
      [] op = "iodi_health_topic_related_health_topic"
            -> "related_health_topic_id"
      [] op = "iodi_health_topic_see_reference" -> "see_reference_id"
      [] op = "iodi_health_topic_body_part" -> "body_part_id"

LinkTable(op) ==
    CASE op = "iodi_health_topic_also_called" -> "AlsoCalled"
      [] op = "iodi_health_topic_health_topic_group" -> "HealthTopicGroup"
      [] op = "iodi_health_topic_descriptor" -> "Descriptor"
      [] op = "iodi_health_topic_related_health_topic" -> "HealthTopic"
      [] op = "iodi_health_topic_see_reference" -> "SeeReference"
      [] op = "iodi_health_topic_body_part" -> "BodyPart"

\* C24: every association a topic ingest writes references existing rows:
\* each link upsert of the run carries a topic id and a target id that are
\* not None and name persisted rows, and the HealthTopic upsert of the same
\* ingest call precedes it in the call log.
C24_LinksReferenceExistingRows ==
    mode = "topics" =>
        \A c \in DOMAIN calls :
           calls[c].op \in LinkOps =>
              /\ calls[c].args.health_topic_id # None
              /\ calls[c].args.health_topic_id \in DOMAIN db.HealthTopic
              /\ calls[c].args[LinkField(calls[c].op)] # None
              /\ calls[c].args[LinkField(calls[c].op)]
                    \in DOMAIN db[LinkTable(calls[c].op)]
              /\ \E u \in RecordUpserts :
                    /\ u < c
                    /\ \A v \in RecordUpserts : v < c => v <= u
                    /\ db.HealthTopic[calls[c].args.health_topic_id].ui
                          = calls[u].args.ui

\* Both passes ended on a stream whose topics wrote links of all six kinds.
C24_Witness ==
    /\ mode = "topics" /\ pc = "done" /\ Len(documents) = 2
    /\ \A op \in LinkOps : CallsOf(op) # <<>>

\* The decoder gives the ingester no empty document in the lists whose
\* helpers return None for one: every also-called and see-reference of a
\* decoded topic is a document with a name key.
C24_DecodedListsHaveNoEmptyDocument ==
    mode = "topics" =>
        \A i \in DOMAIN documents :
           /\ \A j \in DOMAIN documents[i]["also_calleds"] :
                 ~IsEmptyDoc(documents[i]["also_calleds"][j])
           /\ \A j \in DOMAIN documents[i]["see-references"] :
                 ~IsEmptyDoc(documents[i]["see-references"][j])

\* The scraped taxonomy lists a topic of that title under body part
\* `part_name` of the group with url `group_url`.
ListsUnder(group_url, part_name, title) ==
    \E e \in DOMAIN health_topic_body_parts :
       /\ health_topic_body_parts[e].group_url = group_url
       /\ health_topic_body_parts[e].name = part_name
       /\ \E t \in DOMAIN health_topic_body_parts[e].health_topics :
             health_topic_body_parts[e].health_topics[t].name = title

\* C25: every body-part association of a topic points to a BodyPart row
\* owned by a group under which the taxonomy lists that topic, also when the
\* same body-part name occurs under several groups.
C25_BodyPartOfListingGroup ==
    mode = "topics" =>
        \A r \in DOMAIN db.HealthTopicBodyPart :
           LET topic == db.HealthTopic[db.HealthTopicBodyPart[r]
                                          .health_topic_id]
               part == db.BodyPart[db.HealthTopicBodyPart[r].body_part_id]
               group == db.HealthTopicGroup[part.health_topic_group_id]
           IN  ListsUnder(group.url, part.name, topic.title)

\* The calls of a step: what it appended to the call log of the run.
NewCalls == IF Len(calls') >= Len(calls)
            THEN SubSeq(calls', Len(calls) + 1, Len(calls'))
            ELSE <<>>

\* C26: topics mode never creates or changes a HealthTopicGroup or
\* HealthTopicGroupClass row: no step of a topics run, in the body-part step
\* or in either pass, changes one of the two tables or calls one of their
\* upserts, and it reads them only through lookups by url or by name.
C26_TopicsModeKeepsGroups ==
    [][mode = "topics" =>
          /\ db'.HealthTopicGroup = db.HealthTopicGroup
          /\ db'.HealthTopicGroupClass = db.HealthTopicGroupClass
          /\ \A c \in DOMAIN NewCalls :
                /\ NewCalls[c].op \notin {"iodi_health_topic_group_class",
                                          "iodu_health_topic_group"}
                /\ (/\ NewCalls[c].op = "get_by_attr"
                    /\ NewCalls[c].args.orm_class
                          \in {"HealthTopicGroup", "HealthTopicGroupClass"})
                   => NewCalls[c].args.attr_name \in {"url", "name"}]_vars

\* A topics run against a store with groups upserted the body parts of
\* both groups and a topic of the file.
C26_Witness ==
    /\ mode = "topics" /\ pc = "pass1"
    /\ db.HealthTopicGroup = GroupsDb.HealthTopicGroup
    /\ Len(db.BodyPart) = 3
    /\ db.HealthTopic # <<>>
    /\ \E c \in DOMAIN calls :
          /\ calls[c].op = "get_by_attr"
          /\ calls[c].args.orm_class = "HealthTopicGroup"

\* The names `not name` holds for.
EmptyNames == {NoneStr, ""}

\* The call returned None, raised nothing, and left the store and the call
\* log as they were.
NoOp(st0, st) ==
    /\ st.db = st0.db
    /\ st.calls = st0.calls
    /\ st.exc = NoExc
    /\ st.ret = None

\* C27: ingesting an empty input is a no-op. Against the store of every
\* point of a run, the group and topic ingesters and the also-called,
\* primary-institute and see-reference helpers given an empty document, and
\* the group-class and body-part ingesters given an empty name, return None
\* with no lookup and no upsert and leave the store unchanged; and no run
\* has upserted a group class, a body part or a primary institute for an
\* empty input.
C27_EmptyInputNoOp ==
    LET st == [Ctx(db, calls) EXCEPT !.ret = 1]
    IN  /\ \A name \in EmptyNames :
              /\ NoOp(st, IngesterMedlineGroupClasses_ingest(st, name))
              /\ \A url \in {"/g1", "/g2", "/g3"} :
                    NoOp(st, IngesterMedlineBodyParts_ingest(st, name, url))
        /\ NoOp(st, IngesterMedlineGroups_ingest(
                       st, health_topic_group_classes, EmptyDoc))
        /\ \A do_ingest_links \in BOOLEAN :
              NoOp(st, IngesterMedlineHealthTopics_ingest(
                          st, health_topic_body_parts, EmptyDoc,
                          do_ingest_links))
        /\ NoOp(st, ingest_also_called(st, EmptyDoc))
        /\ NoOp(st, ingest_primary_institute(st, EmptyDoc))
        /\ NoOp(st, ingest_see_reference(st, EmptyDoc))
        /\ \A c \in DOMAIN calls :
              calls[c].op \in {"iodi_health_topic_group_class",
                               "iodi_body_part", "iodu_primary_institute"}
                 => calls[c].args.name \notin EmptyNames
        /\ pc \in {"groups", "done"} /\ mode = "groups" =>
              Len(CallsOf("iodi_health_topic_group_class"))
                 = Len(WithName(health_topic_group_classes))
        /\ pc \in {"pass1", "pass2", "done"} /\ mode = "topics" =>
              Len(CallsOf("iodi_body_part"))
                 = Len(WithName(health_topic_body_parts))

\* A topics run went past a scraped body part without name, issuing nothing
\* for it, and upserted a topic that has no primary institute without
\* upserting an institute.
C27_Witness ==
    /\ mode = "topics" /\ pc = "pass1"
    /\ \E i \in DOMAIN health_topic_body_parts :
          health_topic_body_parts[i].name = ""
    /\ CallsOf("iodi_body_part") # <<>>
    /\ \E c \in DOMAIN calls :
          /\ calls[c].op = "iodu_health_topic"
          /\ calls[c].args.primary_institute_id = None
    /\ CallsOf("iodu_primary_institute") = <<>>

\* A groups run went past a scraped group class without name, issuing
\* nothing for it.
C27_GroupsWitness ==
    /\ mode = "groups" /\ pc = "groups"
    /\ \E i \in DOMAIN health_topic_group_classes :
          health_topic_group_classes[i].name = ""
    /\ calls = <<>>

====
